---------------------------- MODULE Spec2Model ----------------------------
(***************************************************************************)
(* FridayChain Arena: the on-chain Sudoku tournament.  One coordinator     *)
(* ("hub") chain and the participants' chains run the same application.    *)
(* The model covers the puzzle engine, the scoring formula, the            *)
(* participant game state machine (PlaceCell / ClearCell / event           *)
(* processing), the coordinator state machine (StartTournament /           *)
(* EndTournament / sync-message handlers) and the messages and events      *)
(* between them.                                                           *)
(***************************************************************************)
EXTENDS Integers, Sequences, FiniteSets, TLC

(***************************************************************************)
(* Bounds of the model.                                                    *)
(***************************************************************************)
\* how often the clock advances
MaxTicks == 1
\* how many tournaments are started (a call made while one is active is not
\* counted: the contract rejects it)
MaxTournaments == 1
\* cap on a game's move_count: in the arena specification, and in the
\* specification of one game played to its end (46 cells and one more move)
MaxArenaMoves == 1
MaxMoves == 47
\* cap on a game's penalty_count in the specification of one game
MaxPenalties == 1
\* how many tournaments follow each other in the specification of a season
MaxSeasonTournaments == 2
\* the largest seed of the specification of the puzzles
MaxSeed == 359
\* moves of a game whose replay is compared with the game
MaxReplayMoves == 3
\* cap on a participant's undelivered sync messages
MaxQueue == 2

(***************************************************************************)
(* Program constants.                                                      *)
(***************************************************************************)
\* the board is 9 x 9, indices 0..8, boxes 3 x 3
GRID_SIZE == 9
BOX_SIZE == 3
\* cells removed from the solution to make the puzzle
CELLS_TO_REMOVE == 46
\* Base Score = 10,000 - (elapsed_seconds x 2) - (penalties x 100)
BASE_SCORE == 10000
TIME_PENALTY_PER_SEC == 2
MOVE_PENALTY == 100
MICROS_PER_SEC == 1000000

\* one step of the clock: 360.25 s in microseconds
TickMicros == 700250000

Idx == 0 .. (GRID_SIZE - 1)
Digits == 1 .. GRID_SIZE
\* Option::None of a struct-valued register or map entry
None == [none |-> TRUE]
\* Option::Some of a number
Some(x) == [some |-> x]

Players == {"alice"}
\* every identity the hub may hear of; "bob" plays only in SpecDuel
Wallets == Players \cup {"bob"}
Admin == "admin"
Hub == "hub"
Names == {"neo"}
Seeds == {200}

Max(a, b) == IF a >= b THEN a ELSE b
\* u64::saturating_sub
SatSub(a, b) == IF a >= b THEN a - b ELSE 0

(***************************************************************************)
(* Puzzle engine.                                                          *)
(***************************************************************************)
\* The solved grid of a seed: a valid Sudoku grid, a function of the seed.
SolutionOf(seed) ==
    [r \in Idx |-> [c \in Idx |->
        ((BOX_SIZE * r + (r \div BOX_SIZE) + c + seed) % GRID_SIZE) + 1]]

\* The cells removed for a seed: 23 cells of the first half of the grid (in
\* row-major order) and their mirror images (8-r, 8-c); the centre stays.
RemovedHalf(seed) == { (seed + 7 * k) % 40 : k \in 0 .. ((CELLS_TO_REMOVE \div 2) - 1) }
\* A removal without the mirror images.
Removed_OneSided(half, r, c) ==
    LET i == GRID_SIZE * r + c
    IN  i \in half

Removed(half, r, c) ==
    LET i == GRID_SIZE * r + c
    IN  i \in half \/ (80 - i) \in half

\* generate_puzzle(seed): the SudokuBoard {puzzle, solution}.
generate_puzzle(seed) ==
    LET sol  == SolutionOf(seed)
        half == RemovedHalf(seed)
    IN  [ puzzle   |-> [r \in Idx |-> [c \in Idx |->
                          IF Removed(half, r, c) THEN 0 ELSE sol[r][c]]],
          solution |-> sol ]

\* A validation that counts the cell itself among the duplicates.
validate_placement_CountsOwnCell(board, row, col, value) ==
    LET br == (row \div BOX_SIZE) * BOX_SIZE
        bc == (col \div BOX_SIZE) * BOX_SIZE
    IN  /\ \A c \in Idx : board[row][c] # value
        /\ \A r \in Idx : board[r][col] # value
        /\ \A r \in br .. (br + BOX_SIZE - 1) : \A c \in bc .. (bc + BOX_SIZE - 1) :
              board[r][c] # value

\* validate_placement: no duplicate of value in the row, the column or the
\* 3 x 3 box of (row, col), the cell itself excepted.
validate_placement(board, row, col, value) ==
    LET br == (row \div BOX_SIZE) * BOX_SIZE
        bc == (col \div BOX_SIZE) * BOX_SIZE
    IN  /\ \A c \in Idx : c # col => board[row][c] # value
        /\ \A r \in Idx : r # row => board[r][col] # value
        /\ \A r \in br .. (br + BOX_SIZE - 1) : \A c \in bc .. (bc + BOX_SIZE - 1) :
              (r # row \/ c # col) => board[r][c] # value

\* A completion check that stops before the last cell.
check_complete_SkipsLastCell(board, solution) ==
    \A r \in Idx : \A c \in Idx :
        (r # GRID_SIZE - 1 \/ c # GRID_SIZE - 1) => board[r][c] = solution[r][c]

\* check_complete: every cell equals the solution's.
check_complete(board, solution) ==
    \A r \in Idx : \A c \in Idx : board[r][c] = solution[r][c]

(***************************************************************************)
(* Scoring.                                                                *)
(***************************************************************************)
\* The formula of the README: 10 points a second, 200 a penalty.
base_score_Readme(completion_time_micros, start_time_micros, penalty_count) ==
    LET elapsed_secs == SatSub(completion_time_micros, start_time_micros) \div MICROS_PER_SEC
    IN  SatSub(SatSub(BASE_SCORE, elapsed_secs * 10), penalty_count * 200)

\* The score computed with plain subtraction, which goes below zero.
base_score_Unsaturated(completion_time_micros, start_time_micros, penalty_count) ==
    LET elapsed_secs == SatSub(completion_time_micros, start_time_micros) \div MICROS_PER_SEC
    IN  BASE_SCORE - elapsed_secs * TIME_PENALTY_PER_SEC - penalty_count * MOVE_PENALTY

\* The hub's score computation on SyncBoardComplete.
base_score(completion_time_micros, start_time_micros, penalty_count) ==
    LET elapsed_secs == SatSub(completion_time_micros, start_time_micros) \div MICROS_PER_SEC
        time_penalty == elapsed_secs * TIME_PENALTY_PER_SEC
        move_pen     == penalty_count * MOVE_PENALTY
    IN  SatSub(SatSub(BASE_SCORE, time_penalty), move_pen)

(***************************************************************************)
(* Replay verification.                                                    *)
(***************************************************************************)
\* The replay of moves on a board: each move that is well-formed and not on
\* a given cell is placed, and counted as a penalty if it breaks a rule.
RECURSIVE Replay(_, _, _)
Replay(puzzle, r, moves) ==
    IF moves = << >> THEN r
    ELSE LET m == Head(moves)
             ok == /\ m[1] \in Idx /\ m[2] \in Idx /\ m[3] \in Digits
                   /\ puzzle[m[1]][m[2]] = 0
         IN  IF ~ok THEN [r EXCEPT !.valid = FALSE]
             ELSE Replay(puzzle,
                         [ r EXCEPT
                             !.penalty_count =
                                 IF validate_placement(r.board, m[1], m[2], m[3])
                                 THEN @ ELSE @ + 1,
                             !.board = [r.board EXCEPT ![m[1]][m[2]] = m[3]] ],
                         Tail(moves))

verify_game(seed, moves) ==
    LET b == generate_puzzle(seed)
        r == Replay(b.puzzle, [board |-> b.puzzle, penalty_count |-> 0, valid |-> TRUE], moves)
        done == check_complete(r.board, b.solution)
    IN  [ valid          |-> r.valid,
          total_moves    |-> Len(moves),
          penalty_count  |-> r.penalty_count,
          final_score    |-> IF done THEN SatSub(BASE_SCORE, r.penalty_count * MOVE_PENALTY)
                             ELSE 0,
          board_complete |-> done ]


(***************************************************************************)
(* State.                                                                  *)
(*   now              the chain clock (runtime.system_time), microseconds  *)
(*   hub              the coordinator chain's ArenaState registers/maps    *)
(*   event_log        the hub's event stream (LogView<ArenaEvent>)         *)
(*   leaderboard_log  the hub's audit log (LogView<LeaderboardEntry>)      *)
(*   past_tournaments the hub's history (LogView<Tournament>)              *)
(*   chain            each participant chain's ArenaState                  *)
(*   outbox           each participant's sync messages not yet executed    *)
(*                    by the hub, in emission order                        *)
(*   last             the response of the operation executed last          *)
(*   move_log         each participant's accepted PlaceCell operations,    *)
(*                    in the order of its chain's blocks                   *)
(*   client           the browser: localStorage and the module state of    *)
(*                    lineraClient.ts, and the connection of useArena      *)
(*   arena            the browser: the tournament and the game state that  *)
(*                    useArena holds, its backup in localStorage, and the  *)
(*                    game-state queries that have not been answered yet   *)
(***************************************************************************)
VARIABLES now, hub, event_log, leaderboard_log, past_tournaments, chain, outbox, last,
          move_log, client, arena

vars == <<now, hub, event_log, leaderboard_log, past_tournaments, chain, outbox, last,
          move_log, client, arena>>

\* The state of the chains, which the browser's own steps leave alone.
chains == <<now, hub, event_log, leaderboard_log, past_tournaments, chain, outbox, last,
            move_log>>

\* The MetaMask accounts of the browser's user.
EvmAddresses == {"0xf76e", "0x52da"}

\* The calls of connectToLinera that may be under way at the same time.
ConnectCalls == {1, 2}

\* The callers of ensureWasmInit: runPhase1 as started by startPreWarm on
\* import, initLinera, and runPhase1 as run again by connectToLinera.
WasmCallers == {"startPreWarm", "initLinera", "connectToLinera"}

\* The module before any call: wasmInitialized = false, wasmInitPromise =
\* null.  importing and initializing count the runs of the initialisation
\* that wait for import('@linera/client') and for initialize();
\* initializeCalls counts the calls of initialize(); at gives each caller's
\* position and calls the number of its calls.
NewWasm ==
    [ wasmInitialized |-> FALSE,
      wasmInitPromise |-> None,
      importing       |-> 0,
      initializing    |-> 0,
      initializeCalls |-> 0,
      at              |-> [c \in WasmCallers |-> "idle"],
      calls           |-> [c \in WasmCallers |-> 0] ]

\* The connection state of the module just after import: startPreWarm has
\* set phase1Promise; nothing else is set.  phase2Runs lists the calls of
\* runPhase2 with the key of the identity each was given, phase2Promise is
\* the index of the run whose promise the variable holds.  connect gives
\* the position and the argument of each call of connectToLinera under way,
\* query the position of the one query, and connects and queries count the
\* calls.
NewPhases ==
    [ phase1Promise |-> "pending",
      phase1Result  |-> None,
      phase2Promise |-> None,
      phase2Result  |-> None,
      phase2Runs    |-> << >>,
      lineraApp     |-> None,
      hubApp        |-> None,
      userChainId   |-> None,
      signerAddress |-> None,
      connect       |-> [i \in ConnectCalls |-> [at |-> "idle", evmAddress |-> ""]],
      connects      |-> 0,
      query         |-> [at |-> "idle", run |-> 0, handle |-> None],
      queries       |-> 0 ]

\* localStorage is empty and the module has just been imported: startPreWarm
\* has set phase1Promise, which has not resolved yet.  keys counts the keys
\* PrivateKey.createRandom has produced, each one new.
NewClient ==
    [ localStorage |-> [a \in EvmAddresses |-> None],
      phase1Done   |-> FALSE,
      phase1Result |-> None,
      keys         |-> 0,
      connection   |-> None,
      wasm         |-> NewWasm,
      phases       |-> NewPhases ]

\* useArena before its first poll: disconnected, no interval timer
\* (pollRef), no tournament seen, no game state, and a suspicious-move
\* detector with an empty window.  listeners counts the callbacks that
\* onNotification has registered with the chain handle.  recorded lists
\* the clock readings of all calls of recordMove, sinceReset counts those
\* after the last reset.
NewArena ==
    [ status           |-> "Disconnected",
      pollRef          |-> FALSE,
      listeners        |-> 0,
      player           |-> None,
      puzzleBoard      |-> None,
      tournament       |-> None,
      lastTournamentId |-> None,
      gameState        |-> None,
      backup           |-> None,
      inflight         |-> {},
      moveTimestamps   |-> << >>,
      isSuspicious     |-> FALSE,
      recorded         |-> << >>,
      sinceReset       |-> 0 ]

\* PlayerGameState::new: created lazily on the first move of a tournament.
NewGame(board, t) ==
    [ board                  |-> board.puzzle,
      given_mask             |-> [r \in Idx |-> [c \in Idx |-> board.puzzle[r][c] # 0]],
      penalty_count          |-> 0,
      move_count             |-> 0,
      start_time_micros      |-> t,
      completed              |-> FALSE,
      completion_time_micros |-> None,
      score                  |-> 0 ]

NewChain ==
    [ player            |-> None,
      subscribed        |-> FALSE,
      active_tournament |-> None,
      current_puzzle    |-> None,
      game              |-> None,
      cached_leaderboard |-> None,
      next_event        |-> 1 ]

NewEntry(wallet, name) ==
    [ wallet                 |-> wallet,
      discord_username       |-> name,
      score                  |-> 0,
      completion_time_micros |-> 0,
      penalty_count          |-> 0,
      move_count             |-> 0,
      completed              |-> FALSE ]

\* The response of an operation: its name, where and by whom it ran, its
\* arguments, and whether it was accepted (ErrorResponse otherwise).
Response(op, on, by, args, ok) ==
    [op |-> op, on |-> on, by |-> by, args |-> args, ok |-> ok]

\* No operation has run since the last delivery or clock step.
Idle == Response("", "", "", << >>, TRUE)

InitWith(participants) ==
    /\ now = 0
    /\ hub = [ players            |-> [p \in Wallets |-> None],
               player_count       |-> 0,
               active_tournament  |-> None,
               tournament_counter |-> 0,
               current_puzzle     |-> None,
               leaderboard        |-> [p \in Wallets |-> None] ]
    /\ event_log = << >>
    /\ leaderboard_log = << >>
    /\ past_tournaments = << >>
    /\ chain = [p \in participants |-> NewChain]
    /\ outbox = [p \in participants |-> << >>]
    /\ last = Idle
    /\ move_log = [p \in participants |-> << >>]
    /\ client = NewClient
    /\ arena = NewArena

Init == InitWith(Players)

\* Two participants, each with a chain of its own.
InitDuel == InitWith(Wallets)

(***************************************************************************)
(* The clock.                                                              *)
(***************************************************************************)
Tick ==
    /\ now < MaxTicks * TickMicros
    /\ now' = now + TickMicros
    /\ UNCHANGED <<hub, event_log, leaderboard_log, past_tournaments, chain, outbox>>

(***************************************************************************)
(* Participant chain: PlaceCell.                                           *)
(***************************************************************************)
\* A tournament check that does not look at the time window.
TournamentOpen_NoWindow(t, time) ==
    /\ t # None
    /\ t.active

\* The tournament check of PlaceCell: active and within the time window.
TournamentOpen(t, time) ==
    /\ t # None
    /\ t.active
    /\ time >= t.start_time_micros
    /\ time <= t.end_time_micros

InRange(row, col, value) ==
    /\ row \in Idx
    /\ col \in Idx
    /\ value \in Digits

\* A game that takes moves after its completion.
GameOver_Never(g) == FALSE

\* Completed is terminal: a completed game takes no further move.
GameOver(g) == g.completed

\* The game PlaceCell works on: the stored one, or a fresh one.
LoadGame(c, time) ==
    IF c.game # None THEN c.game ELSE NewGame(c.current_puzzle, time)

\* A PlaceCell that does not check the given mask.
PlaceCellAccepts_NoGivenCheck(c, time, row, col, value) ==
    /\ c.player # None
    /\ TournamentOpen(c.active_tournament, time)
    /\ InRange(row, col, value)
    /\ c.current_puzzle # None
    /\ ~GameOver(LoadGame(c, time))

\* PlaceCell's preconditions, in the order the contract checks them.
PlaceCellAccepts(c, time, row, col, value) ==
    /\ c.player # None
    /\ TournamentOpen(c.active_tournament, time)
    /\ InRange(row, col, value)
    /\ c.current_puzzle # None
    /\ ~GameOver(LoadGame(c, time))
    /\ ~LoadGame(c, time).given_mask[row][col]

\* The score the participant chain records when its board is complete.
LocalScore(t, time, penalty_count) ==
    base_score(time, t.start_time_micros, penalty_count)

\* A PlaceCell that records a score estimate on every move.
PlacedGame_ScoresEveryMove(c, time, row, col, value) ==
    LET g     == LoadGame(c, time)
        valid == validate_placement(g.board, row, col, value)
        pen   == IF valid THEN g.penalty_count ELSE g.penalty_count + 1
        b     == [g.board EXCEPT ![row][col] = value]
        done  == check_complete(b, c.current_puzzle.solution)
    IN  [ g EXCEPT !.board = b,
                   !.move_count = g.move_count + 1,
                   !.penalty_count = pen,
                   !.completed = done,
                   !.completion_time_micros = IF done THEN Some(time) ELSE g.completion_time_micros,
                   !.score = LocalScore(c.active_tournament, time, pen) ]

\* A PlaceCell that blocks an invalid placement instead of recording it.
PlacedGame_BlocksInvalid(c, time, row, col, value) ==
    LET g     == LoadGame(c, time)
        valid == validate_placement(g.board, row, col, value)
        pen   == IF valid THEN g.penalty_count ELSE g.penalty_count + 1
        b     == IF valid THEN [g.board EXCEPT ![row][col] = value] ELSE g.board
        done  == check_complete(b, c.current_puzzle.solution)
    IN  [ g EXCEPT !.board = b,
                   !.move_count = g.move_count + 1,
                   !.penalty_count = pen,
                   !.completed = done,
                   !.completion_time_micros = IF done THEN Some(time) ELSE g.completion_time_micros,
                   !.score = IF done THEN LocalScore(c.active_tournament, time, pen)
                                     ELSE g.score ]

\* A PlaceCell that takes a penalty back when a valid placement follows.
PlacedGame_TakesPenaltyBack(c, time, row, col, value) ==
    LET g     == LoadGame(c, time)
        valid == validate_placement(g.board, row, col, value)
        pen   == IF valid THEN Max(0, g.penalty_count - 1) ELSE g.penalty_count + 1
        b     == [g.board EXCEPT ![row][col] = value]
        done  == check_complete(b, c.current_puzzle.solution)
    IN  [ g EXCEPT !.board = b,
                   !.move_count = g.move_count + 1,
                   !.penalty_count = pen,
                   !.completed = done,
                   !.completion_time_micros = IF done THEN Some(time) ELSE g.completion_time_micros,
                   !.score = IF done THEN LocalScore(c.active_tournament, time, pen)
                                     ELSE g.score ]

\* Steps 8-12 of PlaceCell on the loaded game.
PlacedGame(c, time, row, col, value) ==
    LET g     == LoadGame(c, time)
        valid == validate_placement(g.board, row, col, value)
        pen   == IF valid THEN g.penalty_count ELSE g.penalty_count + 1
        b     == [g.board EXCEPT ![row][col] = value]
        done  == check_complete(b, c.current_puzzle.solution)
    IN  [ g EXCEPT !.board = b,
                   !.move_count = g.move_count + 1,
                   !.penalty_count = pen,
                   !.completed = done,
                   !.completion_time_micros = IF done THEN Some(time) ELSE g.completion_time_micros,
                   !.score = IF done THEN LocalScore(c.active_tournament, time, pen)
                                     ELSE g.score ]

SyncBoardComplete(p, g) ==
    [ type |-> "SyncBoardComplete", wallet |-> p,
      completion_time_micros |-> g.completion_time_micros.some,
      penalty_count |-> g.penalty_count, move_count |-> g.move_count ]

SyncCellPlacement(p, row, col, value, time, g) ==
    [ type |-> "SyncCellPlacement", wallet |-> p, row |-> row, col |-> col,
      value |-> value, timestamp_micros |-> time, penalty_count |-> g.penalty_count ]

\* A PlaceCell whose last move sends the completion message alone.
PlaceCellMessages_CompletionAlone(p, g, time, row, col, value) ==
    IF g.completed THEN << SyncBoardComplete(p, g) >>
    ELSE << SyncCellPlacement(p, row, col, value, time, g) >>

\* The messages PlaceCell sends to the hub: the completion message, if the
\* board is complete, and then the move-sync message.
PlaceCellMessages(p, g, time, row, col, value) ==
    (IF g.completed THEN << SyncBoardComplete(p, g) >> ELSE << >>)
        \o << SyncCellPlacement(p, row, col, value, time, g) >>

PlaceCell(p, row, col, value) ==
    /\ IF PlaceCellAccepts(chain[p], now, row, col, value)
       THEN LET g == PlacedGame(chain[p], now, row, col, value)
            IN  /\ chain' = [chain EXCEPT ![p].game = g]
                /\ outbox' = [outbox EXCEPT ![p] = @ \o PlaceCellMessages(p, g, now, row, col, value)]
       ELSE UNCHANGED <<chain, outbox>>
    /\ UNCHANGED <<now, hub, event_log, leaderboard_log, past_tournaments>>

\* The next move of a player who solves the puzzle: the first cell, in
\* row-major order, that differs from the solution, with the solution's value.
WrongCells(c) ==
    IF c.current_puzzle = None THEN {}
    ELSE LET b == IF c.game = None THEN c.current_puzzle.puzzle ELSE c.game.board
         IN  { GRID_SIZE * r + col : r \in Idx, col \in Idx } \cap
             { i \in 0 .. 80 : b[i \div GRID_SIZE][i % GRID_SIZE]
                                 # c.current_puzzle.solution[i \div GRID_SIZE][i % GRID_SIZE] }

SolverMoves(c) ==
    IF WrongCells(c) = {} THEN {}
    ELSE LET i == CHOOSE j \in WrongCells(c) : \A k \in WrongCells(c) : j <= k
         IN  { << i \div GRID_SIZE, i % GRID_SIZE,
                  c.current_puzzle.solution[i \div GRID_SIZE][i % GRID_SIZE] >> }

\* Other placements a player tries: a value already in the column (3,5,7), a
\* legal but wrong value (3,5,3), a given cell (0,1), and malformed input.
ProbeMoves ==
    { <<3, 5, 7>>, <<3, 5, 3>>, <<0, 1, 5>>, <<9, 0, 1>>, <<3, 5, 10>> }



(***************************************************************************)
(* Participant chain: ClearCell, RegisterPlayer, SubscribeToHub.           *)
(***************************************************************************)
\* A ClearCell that does not check the given mask.
ClearCellAccepts_ClearsGivens(c, row, col) ==
    /\ c.player # None
    /\ row \in Idx
    /\ col \in Idx
    /\ c.game # None
    /\ ~GameOver(c.game)

ClearCellAccepts(c, row, col) ==
    /\ c.player # None
    /\ row \in Idx
    /\ col \in Idx
    /\ c.game # None
    /\ ~GameOver(c.game)
    /\ ~c.game.given_mask[row][col]

ClearedGame(g, row, col) ==
    [g EXCEPT !.board = [g.board EXCEPT ![row][col] = 0]]

ClearCell(p, row, col) ==
    /\ IF ClearCellAccepts(chain[p], row, col)
       THEN chain' = [chain EXCEPT ![p].game = ClearedGame(@, row, col)]
       ELSE UNCHANGED chain
    /\ UNCHANGED <<now, hub, event_log, leaderboard_log, past_tournaments, outbox>>

\* The cells a player clears: a placed cell, a given cell, a malformed one.
ProbeClears == { <<3, 5>>, <<0, 1>>, <<9, 0>> }


PlayerInfo(p, name, time) ==
    [wallet |-> p, discord_username |-> name, registered_at_micros |-> time]

\* RegisterPlayer: upsert the player on its own chain and sync it to the hub.
RegisterPlayer(p, name) ==
    /\ LET info == IF chain[p].player = None THEN PlayerInfo(p, name, now)
                   ELSE [chain[p].player EXCEPT !.discord_username = name]
       IN  /\ chain' = [chain EXCEPT ![p].player = info]
           /\ outbox' = [outbox EXCEPT ![p] = Append(@, [type |-> "SyncPlayer", info |-> info])]
    /\ UNCHANGED <<now, hub, event_log, leaderboard_log, past_tournaments>>


\* SubscribeToHub: the chain starts reading the hub's event stream.
SubscribeToHub(p) ==
    /\ ~chain[p].subscribed
    /\ chain' = [chain EXCEPT ![p].subscribed = TRUE]
    /\ UNCHANGED <<now, hub, event_log, leaderboard_log, past_tournaments, outbox>>


(***************************************************************************)
(* Participant chain: process_streams.                                     *)
(***************************************************************************)
\* A TournamentStarted that never resets the game.
GameAfterTournamentStarted_Keeps(c, e) == c.game

\* The game of a chain after TournamentStarted: kept when the event is of the
\* tournament the chain already knows, reset (NotStarted) when the id differs.
GameAfterTournamentStarted(c, e) ==
    IF c.active_tournament # None /\ c.active_tournament.id = e.tournament_id
    THEN c.game ELSE None

\* An event handler that sets the tournament but generates no puzzle.
ApplyEvent_NoPuzzle(c, e) ==
    CASE e.type = "TournamentStarted" ->
            [ c EXCEPT
                !.active_tournament =
                    [ id |-> e.tournament_id, seed |-> e.seed,
                      start_time_micros |-> e.start_time_micros,
                      end_time_micros |-> e.end_time_micros,
                      active |-> TRUE, total_players |-> 0, total_completions |-> 0 ] ]
      [] e.type = "TournamentEnded" ->
            IF c.active_tournament # None /\ c.active_tournament.id = e.tournament_id
            THEN [c EXCEPT !.active_tournament.active = FALSE]
            ELSE c
      [] e.type = "LeaderboardUpdated" ->
            [c EXCEPT !.cached_leaderboard = [entries |-> e.entries]]
      [] OTHER -> c
\* A TournamentStarted that keeps the puzzle the chain already has.
ApplyEvent_StalePuzzle(c, e) ==
    IF e.type # "TournamentStarted" THEN ApplyEvent_NoPuzzle(c, e)
    ELSE [ ApplyEvent_NoPuzzle(c, e) EXCEPT
             !.current_puzzle = IF c.current_puzzle # None THEN c.current_puzzle
                                ELSE generate_puzzle(e.seed),
             !.game = GameAfterTournamentStarted(c, e) ]

\* The chain's state after one event of the hub's stream.
ApplyEvent(c, e) ==
    CASE e.type = "TournamentStarted" ->
            [ c EXCEPT
                !.active_tournament =
                    [ id |-> e.tournament_id, seed |-> e.seed,
                      start_time_micros |-> e.start_time_micros,
                      end_time_micros |-> e.end_time_micros,
                      active |-> TRUE, total_players |-> 0, total_completions |-> 0 ],
                !.current_puzzle = generate_puzzle(e.seed),
                !.game = GameAfterTournamentStarted(c, e) ]
      [] e.type = "TournamentEnded" ->
            IF c.active_tournament # None /\ c.active_tournament.id = e.tournament_id
            THEN [c EXCEPT !.active_tournament.active = FALSE]
            ELSE c
      [] e.type = "LeaderboardUpdated" ->
            [c EXCEPT !.cached_leaderboard = [entries |-> e.entries]]
      [] OTHER -> c

\* process_streams: the next event of the stream.
ProcessEvent(p) ==
    /\ chain[p].subscribed
    /\ chain[p].next_event <= Len(event_log)
    /\ chain' = [chain EXCEPT ![p] =
                    [ApplyEvent(@, event_log[@.next_event]) EXCEPT !.next_event = @ + 1]]
    /\ UNCHANGED <<now, hub, event_log, leaderboard_log, past_tournaments, outbox>>

\* At-least-once delivery: the event processed last arrives once more.
RedeliverEvent(p) ==
    /\ chain[p].subscribed
    /\ chain[p].next_event > 1
    /\ chain' = [chain EXCEPT ![p] = ApplyEvent(@, event_log[@.next_event - 1])]
    /\ UNCHANGED <<now, hub, event_log, leaderboard_log, past_tournaments, outbox>>


(***************************************************************************)
(* Hub chain: StartTournament, EndTournament.                              *)
(***************************************************************************)
IsActive(t) == t # None /\ t.active

\* get_sorted_leaderboard: completed entries first, then by score
\* descending, then by completion time ascending.
Ranks(a, b) ==
    \/ a.completed /\ ~b.completed
    \/ a.completed = b.completed /\ a.score > b.score
    \/ a.completed = b.completed /\ a.score = b.score
         /\ a.completion_time_micros <= b.completion_time_micros

SortedLeaderboard(lb) ==
    LET ws == { p \in Wallets : lb[p] # None }
        n  == Cardinality(ws)
    IN  IF n = 0 THEN << >>
        ELSE LET order == CHOOSE f \in [1 .. n -> ws] :
                              /\ \A i, j \in 1 .. n : i # j => f[i] # f[j]
                              /\ \A i, j \in 1 .. n : i < j => Ranks(lb[f[i]], lb[f[j]])
             IN  [i \in 1 .. n |-> lb[order[i]]]

\* A StartTournament that does not look at the tournament in progress.
StartTournamentAccepts_NoActiveCheck(h, caller, on) ==
    /\ caller = Admin
    /\ on = Hub

StartTournamentAccepts(h, caller, on) ==
    /\ caller = Admin
    /\ on = Hub
    /\ ~IsActive(h.active_tournament)

NewTournament(id, seed, duration_secs, time) ==
    [ id |-> id, seed |-> seed,
      start_time_micros |-> time,
      end_time_micros |-> time + duration_secs * MICROS_PER_SEC,
      active |-> TRUE, total_players |-> 0, total_completions |-> 0 ]

TournamentStarted(t) ==
    [ type |-> "TournamentStarted", tournament_id |-> t.id, seed |-> t.seed,
      start_time_micros |-> t.start_time_micros, end_time_micros |-> t.end_time_micros ]

StartedHub(h, seed, duration_secs, time) ==
    [ h EXCEPT !.tournament_counter = h.tournament_counter + 1,
               !.active_tournament =
                    NewTournament(h.tournament_counter + 1, seed, duration_secs, time),
               !.current_puzzle = generate_puzzle(seed),
               !.leaderboard = [p \in Wallets |-> None] ]
\* StartTournament that starts the event log afresh.
StartTournament_ResetsLog(caller, on, seed, duration_secs) ==
    /\ IF StartTournamentAccepts(hub, caller, on)
       THEN /\ hub' = StartedHub(hub, seed, duration_secs, now)
            /\ event_log' = << TournamentStarted(hub'.active_tournament) >>
       ELSE UNCHANGED <<hub, event_log>>
    /\ UNCHANGED <<now, leaderboard_log, past_tournaments, chain, outbox>>

StartTournament(caller, on, seed, duration_secs) ==
    /\ IF StartTournamentAccepts(hub, caller, on)
       THEN /\ hub' = StartedHub(hub, seed, duration_secs, now)
            /\ event_log' = Append(event_log, TournamentStarted(hub'.active_tournament))
       ELSE UNCHANGED <<hub, event_log>>
    /\ UNCHANGED <<now, leaderboard_log, past_tournaments, chain, outbox>>
\* EndTournament without the check of the caller.
EndTournamentAccepts_AnyCaller(h, caller, on) ==
    /\ on = Hub
    /\ IsActive(h.active_tournament)

EndTournamentAccepts(h, caller, on) ==
    /\ caller = Admin
    /\ on = Hub
    /\ IsActive(h.active_tournament)
\* EndTournament that forgets to archive the tournament it ends.
EndTournament_NoArchive(caller, on) ==
    /\ IF EndTournamentAccepts(hub, caller, on)
       THEN /\ hub' = [hub EXCEPT !.active_tournament.active = FALSE]
            /\ event_log' = Append(event_log,
                  [ type |-> "TournamentEnded",
                    tournament_id |-> hub.active_tournament.id,
                    final_rankings |-> SortedLeaderboard(hub.leaderboard) ])
       ELSE UNCHANGED <<hub, event_log>>
    /\ UNCHANGED <<now, leaderboard_log, past_tournaments, chain, outbox>>

EndTournament(caller, on) ==
    /\ IF EndTournamentAccepts(hub, caller, on)
       THEN /\ hub' = [hub EXCEPT !.active_tournament.active = FALSE]
            /\ past_tournaments' = Append(past_tournaments, hub'.active_tournament)
            /\ event_log' = Append(event_log,
                  [ type |-> "TournamentEnded",
                    tournament_id |-> hub.active_tournament.id,
                    final_rankings |-> SortedLeaderboard(hub.leaderboard) ])
       ELSE UNCHANGED <<hub, event_log, past_tournaments>>
    /\ UNCHANGED <<now, leaderboard_log, chain, outbox>>

\* Who calls the admin operations, and on which chain: the administrator on
\* the hub, a player on the hub, the administrator on a player's chain.
AdminCalls == { <<Admin, Hub>> } \cup { <<p, Hub>> : p \in Players }
                  \cup { <<Admin, p>> : p \in Players }



(***************************************************************************)
(* Hub chain: execute_message.                                             *)
(***************************************************************************)
DisplayName(h, wallet) ==
    IF h.players[wallet] = None THEN "" ELSE h.players[wallet].discord_username

EntryOf(h, wallet) ==
    IF h.leaderboard[wallet] = None THEN NewEntry(wallet, DisplayName(h, wallet))
    ELSE h.leaderboard[wallet]
\* SyncPlayer that counts every message as a new player.
OnSyncPlayer_CountsEveryMessage(h, m) ==
    [ h EXCEPT !.players[m.info.wallet] = m.info,
               !.player_count = @ + 1 ]

\* SyncPlayer: upsert the registry; a new identity counts once.
OnSyncPlayer(h, m) ==
    [ h EXCEPT !.players[m.info.wallet] = m.info,
               !.player_count = IF h.players[m.info.wallet] = None THEN @ + 1 ELSE @ ]
\* A SyncCellPlacement carries no move count: the hub tracks the moves of an
\* entry by counting the placements it executes.
TrackedMoveCount(e) == e.move_count + 1

\* SyncCellPlacement that charges a participant for the entries that were on
\* the leaderboard before its own.
OnSyncCellPlacement_ChargesLatecomers(h, m) ==
    IF ~IsActive(h.active_tournament) THEN h
    ELSE LET e == EntryOf(h, m.wallet)
             t == h.active_tournament
         IN  IF e.completed THEN h
             ELSE [ h EXCEPT
                      !.leaderboard[m.wallet] =
                          [ e EXCEPT !.move_count = TrackedMoveCount(e),
                                     !.penalty_count = m.penalty_count,
                                     !.score = SatSub(
                                          base_score(m.timestamp_micros,
                                              t.start_time_micros, m.penalty_count),
                                          t.total_players) ],
                      !.active_tournament.total_players =
                          IF h.leaderboard[m.wallet] = None THEN @ + 1 ELSE @ ]

\* SyncCellPlacement that is recorded after the tournament has ended.
OnSyncCellPlacement_AfterEnd(h, m) ==
    IF h.active_tournament = None THEN h
    ELSE LET e == EntryOf(h, m.wallet)
             t == h.active_tournament
         IN  IF e.completed THEN h
             ELSE [ h EXCEPT
                      !.leaderboard[m.wallet] =
                          [ e EXCEPT !.move_count = TrackedMoveCount(e),
                                     !.penalty_count = m.penalty_count,
                                     !.score = base_score(m.timestamp_micros,
                                                   t.start_time_micros, m.penalty_count) ],
                      !.active_tournament.total_players =
                          IF h.leaderboard[m.wallet] = None THEN @ + 1 ELSE @ ]

\* SyncCellPlacement that upserts the live entry whatever the entry holds.
OnSyncCellPlacement_Upserts(h, m) ==
    IF ~IsActive(h.active_tournament) THEN h
    ELSE LET e == EntryOf(h, m.wallet)
             t == h.active_tournament
         IN  [ h EXCEPT
                 !.leaderboard[m.wallet] =
                     [ e EXCEPT !.move_count = TrackedMoveCount(e),
                                !.penalty_count = m.penalty_count,
                                !.completed = FALSE,
                                !.score = base_score(m.timestamp_micros,
                                              t.start_time_micros, m.penalty_count) ],
                 !.active_tournament.total_players =
                     IF h.leaderboard[m.wallet] = None THEN @ + 1 ELSE @ ]

\* SyncCellPlacement: the live entry, with an estimated score.
OnSyncCellPlacement(h, m) ==
    IF ~IsActive(h.active_tournament) THEN h
    ELSE LET e == EntryOf(h, m.wallet)
             t == h.active_tournament
         IN  IF e.completed THEN h
             ELSE [ h EXCEPT
                      !.leaderboard[m.wallet] =
                          [ e EXCEPT !.move_count = TrackedMoveCount(e),
                                     !.penalty_count = m.penalty_count,
                                     !.score = base_score(m.timestamp_micros,
                                                   t.start_time_micros, m.penalty_count) ],
                      !.active_tournament.total_players =
                          IF h.leaderboard[m.wallet] = None THEN @ + 1 ELSE @ ]

\* SyncBoardComplete that the hub ignores.
OnSyncBoardComplete_Ignores(h, m) == h

\* SyncBoardComplete that counts every completion message.
OnSyncBoardComplete_CountsAgain(h, m) ==
    IF ~IsActive(h.active_tournament) THEN h
    ELSE LET e == EntryOf(h, m.wallet)
             t == h.active_tournament
         IN  [ h EXCEPT
                 !.leaderboard[m.wallet] =
                     [ e EXCEPT !.score = base_score(m.completion_time_micros,
                                              t.start_time_micros, m.penalty_count),
                                !.completion_time_micros = m.completion_time_micros,
                                !.penalty_count = m.penalty_count,
                                !.move_count = m.move_count,
                                !.completed = TRUE ],
                 !.active_tournament.total_players =
                     IF h.leaderboard[m.wallet] = None THEN @ + 1 ELSE @,
                 !.active_tournament.total_completions =
                     @ + 1 ]

\* SyncBoardComplete: the authoritative score.
OnSyncBoardComplete(h, m) ==
    IF ~IsActive(h.active_tournament) THEN h
    ELSE LET e == EntryOf(h, m.wallet)
             t == h.active_tournament
         IN  [ h EXCEPT
                 !.leaderboard[m.wallet] =
                     [ e EXCEPT !.score = base_score(m.completion_time_micros,
                                              t.start_time_micros, m.penalty_count),
                                !.completion_time_micros = m.completion_time_micros,
                                !.penalty_count = m.penalty_count,
                                !.move_count = m.move_count,
                                !.completed = TRUE ],
                 !.active_tournament.total_players =
                     IF h.leaderboard[m.wallet] = None THEN @ + 1 ELSE @,
                 !.active_tournament.total_completions =
                     IF e.completed THEN @ ELSE @ + 1 ]

\* The hub executes the oldest undelivered message of a participant.
Deliver(p) ==
    /\ outbox[p] # << >>
    /\ LET m == Head(outbox[p])
       IN  CASE m.type = "SyncPlayer" ->
                  /\ hub' = OnSyncPlayer(hub, m)
                  /\ event_log' =
                        IF hub.players[m.info.wallet] = None
                        THEN Append(event_log, [ type |-> "PlayerRegistered",
                                 wallet |-> m.info.wallet,
                                 discord_username |-> m.info.discord_username ])
                        ELSE event_log
                  /\ UNCHANGED leaderboard_log
             [] m.type = "SyncCellPlacement" ->
                  /\ hub' = OnSyncCellPlacement(hub, m)
                  /\ UNCHANGED <<event_log, leaderboard_log>>
             [] m.type = "SyncBoardComplete" ->
                  /\ hub' = OnSyncBoardComplete(hub, m)
                  /\ IF IsActive(hub.active_tournament)
                     THEN /\ leaderboard_log' =
                                Append(leaderboard_log, hub'.leaderboard[m.wallet])
                          /\ event_log' = Append(event_log,
                                [ type |-> "LeaderboardUpdated",
                                  entries |-> SortedLeaderboard(hub'.leaderboard) ])
                     ELSE UNCHANGED <<event_log, leaderboard_log>>
    /\ outbox' = [outbox EXCEPT ![p] = Tail(@)]
    /\ UNCHANGED <<now, past_tournaments, chain>>

(***************************************************************************)
(* Service: the read surface of a chain, c the state of the chain asked.   *)
(***************************************************************************)
player(c) == c.player

activeTournament(c) == c.active_tournament

\* A puzzleBoard query that returns the other grid of the SudokuBoard.
puzzle_board_Solution(c) ==
    IF c.current_puzzle = None THEN None ELSE c.current_puzzle.solution

\* Only the puzzle of the stored SudokuBoard is returned.
puzzle_board(c) ==
    IF c.current_puzzle = None THEN None ELSE c.current_puzzle.puzzle

playerGameState(c) == c.game

leaderboard(h) == SortedLeaderboard(h.leaderboard)

verifyGame(seed, moves) == verify_game(seed, moves)

\* The hub seen as a chain that answers queries: it keeps no game.
HubChain ==
    [ player |-> None, active_tournament |-> hub.active_tournament,
      current_puzzle |-> hub.current_puzzle, game |-> None ]

(***************************************************************************)
(* The specifications.  Spec is the arena: tournaments come and go, every  *)
(* operation's response is observed in last, and games stay short.         *)
(* SpecGame is one tournament in which a game is played to its end;        *)
(* responses are not observed.                                             *)
(***************************************************************************)
\* The moves are read off the blocks in SpecReplay only.
Observe(traced, r) ==
    /\ IF traced THEN last' = r ELSE UNCHANGED last
    /\ UNCHANGED <<move_log, client, arena>>

MoveCount(c) == IF c.game = None THEN 0 ELSE c.game.move_count

PenaltyCount(c) == IF c.game = None THEN 0 ELSE c.game.penalty_count

TickStep(traced) ==
    /\ Tick
    /\ Observe(traced, Idle)

RegisterPlayerStep(traced, names) ==
    \E p \in DOMAIN chain : \E name \in names :
        /\ Len(outbox[p]) + 1 <= MaxQueue
        /\ traced \/ chain[p].player = None
        /\ RegisterPlayer(p, name)
        /\ Observe(traced, Response("RegisterPlayer", p, p, <<name>>, TRUE))

SubscribeToHubStep(traced) ==
    \E p \in DOMAIN chain :
        /\ SubscribeToHub(p)
        /\ Observe(traced, Response("SubscribeToHub", p, p, << >>, TRUE))

PlaceCellStep(traced, maxMoves, maxPenalties, probes) ==
    \E p \in DOMAIN chain : \E m \in SolverMoves(chain[p]) \cup probes :
        /\ Len(outbox[p]) + 2 <= MaxQueue
        /\ PlaceCell(p, m[1], m[2], m[3])
        /\ MoveCount(chain'[p]) <= maxMoves
        /\ PenaltyCount(chain'[p]) <= maxPenalties
        /\ Observe(traced, Response("PlaceCell", p, p, m,
                                    PlaceCellAccepts(chain[p], now, m[1], m[2], m[3])))

\* PlaceCell while the hub executes nothing: the messages queue up.
QueuedPlaceCellStep(traced, maxMoves, maxPenalties, probes) ==
    \E p \in DOMAIN chain : \E m \in SolverMoves(chain[p]) \cup probes :
        /\ PlaceCell(p, m[1], m[2], m[3])
        /\ MoveCount(chain'[p]) <= maxMoves
        /\ PenaltyCount(chain'[p]) <= maxPenalties
        /\ Observe(traced, Response("PlaceCell", p, p, m,
                                    PlaceCellAccepts(chain[p], now, m[1], m[2], m[3])))

\* PlaceCell, with the accepted operation kept in the log of moves.
RecordedPlaceCellStep(maxMoves, maxPenalties, probes) ==
    \E p \in DOMAIN chain : \E m \in SolverMoves(chain[p]) \cup probes :
        /\ Len(outbox[p]) + 2 <= MaxQueue
        /\ PlaceCell(p, m[1], m[2], m[3])
        /\ MoveCount(chain'[p]) <= maxMoves
        /\ PenaltyCount(chain'[p]) <= maxPenalties
        /\ move_log' = IF PlaceCellAccepts(chain[p], now, m[1], m[2], m[3])
                       THEN [move_log EXCEPT ![p] = Append(@, m)]
                       ELSE move_log
        /\ UNCHANGED <<last, client, arena>>

ClearCellStep(traced, clears) ==
    \E p \in DOMAIN chain : \E m \in clears :
        /\ ClearCell(p, m[1], m[2])
        /\ Observe(traced, Response("ClearCell", p, p, m,
                                    ClearCellAccepts(chain[p], m[1], m[2])))

ProcessEventStep(traced) ==
    \E p \in DOMAIN chain :
        /\ ProcessEvent(p)
        /\ Observe(traced, Idle)

RedeliverEventStep(traced) ==
    \E p \in DOMAIN chain :
        /\ RedeliverEvent(p)
        /\ Observe(traced, Idle)

StartTournamentStep(traced, maxTournaments, seeds, durations) ==
    \E call \in AdminCalls : \E seed \in seeds : \E d \in durations :
        /\ IsActive(hub.active_tournament) \/ hub.tournament_counter < maxTournaments
        /\ StartTournament(call[1], call[2], seed, d)
        /\ Observe(traced, Response("StartTournament", call[2], call[1], <<seed, d>>,
                                    StartTournamentAccepts(hub, call[1], call[2])))

EndTournamentStep(traced) ==
    \E call \in AdminCalls :
        /\ EndTournament(call[1], call[2])
        /\ Observe(traced, Response("EndTournament", call[2], call[1], << >>,
                                    EndTournamentAccepts(hub, call[1], call[2])))

DeliverStep(traced) ==
    \E p \in DOMAIN chain :
        /\ Deliver(p)
        /\ Observe(traced, Idle)

\* The arena.  Its tournaments are short: one tick of the clock ends the
\* window.
ArenaDurations == {300}

Next ==
    \/ TickStep(TRUE)
    \/ RegisterPlayerStep(TRUE, Names)
    \/ SubscribeToHubStep(TRUE)
    \/ PlaceCellStep(TRUE, MaxArenaMoves, MaxArenaMoves, ProbeMoves)
    \/ ClearCellStep(TRUE, ProbeClears)
    \/ ProcessEventStep(TRUE)
    \/ RedeliverEventStep(TRUE)
    \/ StartTournamentStep(TRUE, MaxTournaments, Seeds, ArenaDurations)
    \/ EndTournamentStep(TRUE)
    \/ DeliverStep(TRUE)

Spec == Init /\ [][Next]_vars

\* One game played to its end, in a tournament that lasts longer than the
\* clock runs and that the administrator does not end.  Next to the solver's
\* moves the player tries, on the cell the solver fills last, a value already
\* in its row, and clears it.
GameDurations == {720}
GameProbes == {<<8, 8, 2>>}
GameClears == {<<8, 8>>}

NextGame ==
    \/ TickStep(FALSE)
    \/ RegisterPlayerStep(FALSE, Names)
    \/ SubscribeToHubStep(FALSE)
    \/ PlaceCellStep(FALSE, MaxMoves, MaxPenalties, GameProbes)
    \/ ClearCellStep(FALSE, GameClears)
    \/ ProcessEventStep(FALSE)
    \/ RedeliverEventStep(FALSE)
    \/ StartTournamentStep(FALSE, MaxTournaments, Seeds, GameDurations)
    \/ DeliverStep(FALSE)

SpecGame == Init /\ [][NextGame]_vars

\* A season: tournaments follow each other, started and ended by the
\* administrator; the player joins once and plays short games with the
\* solver's moves.  Responses are not observed.
SeasonProbes == {}

\* the seeds of a season: every tournament has a puzzle of its own
SeasonSeeds == {200 + hub.tournament_counter}

NextSeason ==
    \/ TickStep(TRUE)
    \/ RegisterPlayerStep(TRUE, Names)
    \/ SubscribeToHubStep(TRUE)
    \/ PlaceCellStep(TRUE, MaxArenaMoves, MaxArenaMoves, SeasonProbes)
    \/ ProcessEventStep(TRUE)
    \/ RedeliverEventStep(TRUE)
    \/ StartTournamentStep(TRUE, MaxSeasonTournaments, SeasonSeeds, ArenaDurations)
    \/ EndTournamentStep(TRUE)
    \/ DeliverStep(TRUE)

SpecSeason == Init /\ [][NextSeason]_vars

\* The puzzles: the administrator starts and ends tournaments with every seed
\* up to MaxSeed; nobody plays.
PuzzleSeeds == 0 .. MaxSeed

NextPuzzle ==
    \/ TickStep(FALSE)
    \/ StartTournamentStep(FALSE, MaxTournaments, PuzzleSeeds, ArenaDurations)
    \/ EndTournamentStep(FALSE)

SpecPuzzle == Init /\ [][NextPuzzle]_vars

\* The replay: one participant places and clears cells of the first row and
\* of the given cell (0,1); the accepted placements are logged.
ReplayProbes == {<<0, 0, 5>>, <<0, 2, 5>>, <<0, 1, 5>>}

ReplayClears == {<<0, 0>>}

NextReplay ==
    \/ RegisterPlayerStep(FALSE, Names)
    \/ SubscribeToHubStep(FALSE)
    \/ RecordedPlaceCellStep(MaxReplayMoves, MaxReplayMoves, ReplayProbes)
    \/ ClearCellStep(FALSE, ReplayClears)
    \/ ProcessEventStep(FALSE)
    \/ StartTournamentStep(FALSE, MaxTournaments, Seeds, GameDurations)
    \/ DeliverStep(FALSE)

SpecReplay == Init /\ [][NextReplay]_vars
\* The rules: the replay's placements, and the solver's first move placed a
\* second time on the cell that holds it.  No cell is cleared.
RuleProbes == ReplayProbes \cup {<<0, 0, 3>>}

NextRules ==
    \/ RegisterPlayerStep(FALSE, Names)
    \/ SubscribeToHubStep(FALSE)
    \/ RecordedPlaceCellStep(MaxReplayMoves, MaxReplayMoves, RuleProbes)
    \/ ProcessEventStep(FALSE)
    \/ StartTournamentStep(FALSE, MaxTournaments, Seeds, GameDurations)
    \/ DeliverStep(FALSE)

SpecRules == Init /\ [][NextRules]_vars
\* The registry: two participants register, and register again under another
\* name, at either time; the hub executes their SyncPlayer messages.
RegistryNames == Names \cup {"trinity"}

NextRegistry ==
    \/ TickStep(TRUE)
    \/ RegisterPlayerStep(TRUE, RegistryNames)
    \/ DeliverStep(TRUE)

SpecRegistry == InitDuel /\ [][NextRegistry]_vars

\* The audit: a participant registers once and plays a game to completion
\* with the solver's moves while the administrator starts and ends
\* tournaments; every response is observed.
AuditNames == { name \in Names : \A p \in Players : chain[p].player = None }

AuditProbes == {}

NextAudit ==
    \/ RegisterPlayerStep(TRUE, AuditNames)
    \/ SubscribeToHubStep(TRUE)
    \/ PlaceCellStep(TRUE, MaxMoves, MaxPenalties, AuditProbes)
    \/ ProcessEventStep(TRUE)
    \/ StartTournamentStep(TRUE, MaxTournaments, Seeds, GameDurations)
    \/ EndTournamentStep(TRUE)
    \/ DeliverStep(TRUE)

SpecAudit == Init /\ [][NextAudit]_vars

\* The audit with the substrate's promise: a sync message that is on its way
\* is executed by the hub in the end.
SpecAuditFair == SpecAudit /\ WF_vars(DeliverStep(TRUE))

\* The scores: a registered participant reports a game of one of many lengths and
\* penalty counts, in progress or finished, and the hub scores it.  The
\* moves of these games are not played out: a report is the sync message of
\* a game with the given clock reading and penalty count, one per participant.
ScoreTimes == {0, 999999, 1000000, TickMicros, 2000000000}

ScorePenalties == {0, 1, 60, 61, 101}

ReportedGame(finished, time, penalties) ==
    [ NewGame(hub.current_puzzle, hub.active_tournament.start_time_micros) EXCEPT
        !.completed = finished,
        !.completion_time_micros = IF finished THEN Some(time) ELSE None,
        !.penalty_count = penalties,
        !.move_count = CELLS_TO_REMOVE + penalties ]

ReportStep(times, penalties_) ==
    \E p \in DOMAIN chain : \E finished \in BOOLEAN :
      \E time \in times : \E penalties \in penalties_ :
        /\ chain[p].player # None
        /\ IsActive(hub.active_tournament)
        /\ outbox[p] = << >>
        /\ hub.leaderboard[p] = None
        /\ LET g == ReportedGame(finished, time, penalties)
           IN  outbox' = [outbox EXCEPT ![p] =
                            IF finished THEN << SyncBoardComplete(p, g) >>
                            ELSE << SyncCellPlacement(p, 0, 0, 1, time, g) >>]
        /\ UNCHANGED <<now, hub, event_log, leaderboard_log, past_tournaments, chain>>
        /\ Observe(FALSE, Idle)

NextScore ==
    \/ TickStep(FALSE)
    \/ RegisterPlayerStep(FALSE, Names)
    \/ StartTournamentStep(FALSE, MaxTournaments, Seeds, ArenaDurations)
    \/ ReportStep(ScoreTimes, ScorePenalties)
    \/ DeliverStep(FALSE)

SpecScore == Init /\ [][NextScore]_vars
(***************************************************************************)
(* The browser's Linera client (lineraClient.ts) and the connection that   *)
(* useArena builds on it.                                                  *)
(***************************************************************************)
MaxKeys == 3

\* signer.address(): the owner address derived from a key.
AddressOf(key) == [owner |-> key]

\* The session connectToLinera stores: the key and address of the signer it
\* returns, with the username of the session stored before, if any.
SessionOf(key, evmAddress, stored) ==
    [ privateKeyHex   |-> key,
      signerAddress   |-> AddressOf(key),
      evmAddress      |-> evmAddress,
      discordUsername |-> IF stored = None THEN None ELSE stored.discordUsername ]

\* runPhase1 as started by startPreWarm on import: a signer with a key from
\* PrivateKey.createRandom and a claimed chain, or null on failure.
runPhase1(ok) ==
    /\ ~client.phase1Done
    /\ client' = IF ok
                 THEN [client EXCEPT !.phase1Done = TRUE,
                                     !.keys = @ + 1,
                                     !.phase1Result = Some(client.keys + 1)]
                 ELSE [client EXCEPT !.phase1Done = TRUE]

\* The client after connectToLinera has taken the signer with the given key.
Connected(c, evmAddress, key) ==
    [ c EXCEPT
        !.localStorage[evmAddress] = SessionOf(key, evmAddress, c.localStorage[evmAddress]),
        !.connection = [address |-> evmAddress, signerAddress |-> AddressOf(key)] ]

\* connectToLinera(evmAddress), called by connect of useArena: it waits for
\* phase 1 and takes its signer; where phase 1 failed it runs phase 1 again,
\* and throws if that fails too.
connectToLinera(evmAddress, ok) ==
    /\ client.connection = None
    /\ client.phase1Done
    /\ client' =
         IF client.phase1Result # None
         THEN Connected(client, evmAddress, client.phase1Result.some)
         ELSE IF ok
         THEN Connected([client EXCEPT !.keys = @ + 1,
                                       !.phase1Result = Some(client.keys + 1)],
                        evmAddress, client.keys + 1)
         ELSE client

\* persistPlayerRegistration: the username is added to the stored session.
persistPlayerRegistration(evmAddress, discordUsername) ==
    /\ client.localStorage[evmAddress] # None
    /\ client' = [client EXCEPT
                    !.localStorage[evmAddress].discordUsername = Some(discordUsername)]

\* The page is loaded again: the module is imported anew, localStorage stays.
Reload ==
    client' = [client EXCEPT !.phase1Done = FALSE,
                             !.phase1Result = None,
                             !.connection = None]

runPhase1Step ==
    \E ok \in BOOLEAN :
        /\ ok => client.keys < MaxKeys
        /\ runPhase1(ok)
        /\ UNCHANGED <<chains, arena>>

connectToLineraStep ==
    \E evmAddress \in EvmAddresses : \E ok \in BOOLEAN :
        /\ (ok /\ client.phase1Result = None) => client.keys < MaxKeys
        /\ connectToLinera(evmAddress, ok)
        /\ UNCHANGED <<chains, arena>>

persistPlayerRegistrationStep ==
    \E name \in Names :
        /\ client.connection # None
        /\ persistPlayerRegistration(client.connection.address, name)
        /\ UNCHANGED <<chains, arena>>

ReloadStep ==
    /\ Reload
    /\ UNCHANGED <<chains, arena>>

NextClient ==
    \/ runPhase1Step
    \/ connectToLineraStep
    \/ persistPlayerRegistrationStep
    \/ ReloadStep

SpecClient == Init /\ [][NextClient]_vars
(***************************************************************************)
(* The leaderboards the browser shows: the table of the leaderboard page   *)
(* (LeaderboardTable) and the mini leaderboard of the game page.  Both     *)
(* take the entries of the hub's leaderboard query and the tournament of   *)
(* its activeTournament query; nowMicros is Date.now() * 1000.             *)
(***************************************************************************)
TOTAL_CELLS_TO_PLACE == 46

PROGRESS_BONUS_PER_CELL == 150

Min(a, b) == IF a <= b THEN a ELSE b

\* Both pages: the stored score of a completed entry, or of any entry while
\* the start of the tournament is unknown; else the score as of now, capped
\* at the end of the tournament.
computeLiveBaseScore(entry, tournament, nowMicros) ==
    IF entry.completed THEN entry.score
    ELSE IF tournament = None THEN entry.score
    ELSE IF tournament.start_time_micros = 0 THEN entry.score
    ELSE LET cappedNowMicros == Min(nowMicros, tournament.end_time_micros)
             elapsedSecs == (cappedNowMicros - tournament.start_time_micros) \div MICROS_PER_SEC
         IN  Max(0, BASE_SCORE - elapsedSecs * 2 - entry.penalty_count * 100)

\* computeArenaRating; on the leaderboard page a completed entry gets the
\* bonus of all 46 cells, on the game page it gets none.
computeArenaRating(entry, tournament, nowMicros, completedBonus) ==
    LET baseScore == computeLiveBaseScore(entry, tournament, nowMicros)
        correctMoves == Max(0, entry.move_count - entry.penalty_count)
    IN  IF entry.completed
        THEN baseScore + (IF completedBonus THEN TOTAL_CELLS_TO_PLACE * PROGRESS_BONUS_PER_CELL
                          ELSE 0)
        ELSE baseScore + correctMoves * PROGRESS_BONUS_PER_CELL

\* The comparator of a sort: negative where a goes before b.
Compare(a, b, completedFirst) ==
    IF completedFirst /\ a.completed /\ ~b.completed THEN -1
    ELSE IF completedFirst /\ ~a.completed /\ b.completed THEN 1
    ELSE b.arenaRating - a.arenaRating

\* Array.prototype.sort, which is stable: an element goes behind every
\* element that the comparator does not put after it.
RECURSIVE Inserted(_, _, _)
Inserted(sorted, e, completedFirst) ==
    IF sorted = << >> THEN << e >>
    ELSE LET x == sorted[Len(sorted)]
         IN  IF Compare(x, e, completedFirst) <= 0 THEN Append(sorted, e)
             ELSE Append(Inserted(SubSeq(sorted, 1, Len(sorted) - 1), e, completedFirst), x)

RECURSIVE SortedEntries(_, _)
SortedEntries(entries, completedFirst) ==
    IF entries = << >> THEN << >>
    ELSE Inserted(SortedEntries(SubSeq(entries, 1, Len(entries) - 1), completedFirst),
                  entries[Len(entries)], completedFirst)

\* An entry with its rating.
WithLive(e, tournament, nowMicros, completedBonus) ==
    [ wallet      |-> e.wallet,
      completed   |-> e.completed,
      score       |-> e.score,
      arenaRating |-> computeArenaRating(e, tournament, nowMicros, completedBonus) ]

\* liveEntries of LeaderboardTable: the entries as they come while the
\* tournament is unknown, else completed entries first, then by rating.
liveEntries(entries, tournament, nowMicros) ==
    LET withLive == [i \in 1 .. Len(entries) |->
                        WithLive(entries[i], tournament, nowMicros, TRUE)]
    IN  IF tournament = None \/ entries = << >> THEN withLive
        ELSE SortedEntries(withLive, TRUE)

\* sortedLeaderboard of the game page: by rating alone.
sortedLeaderboard(entries, tournament, nowMicros) ==
    SortedEntries([i \in 1 .. Len(entries) |->
                      WithLive(entries[i], tournament, nowMicros, FALSE)], FALSE)

\* The leaderboards: two registered participants report a game each, in
\* progress or finished, and the browser orders what the hub lists.
TableTimes == {0, TickMicros}

TablePenalties == {0, 1}

NextTable ==
    \/ TickStep(FALSE)
    \/ RegisterPlayerStep(FALSE, Names)
    \/ StartTournamentStep(FALSE, MaxTournaments, Seeds, ArenaDurations)
    \/ ReportStep(TableTimes, TablePenalties)
    \/ DeliverStep(FALSE)

SpecTable == InitDuel /\ [][NextTable]_vars
\* The messages of a game: one tournament, a game played to its end with
\* the rule violation and the clearing of SpecGame, and a hub that executes
\* no message, so that outbox holds every message in the order it was sent.
\* The clock stands still.
NextEmission ==
    \/ RegisterPlayerStep(FALSE, Names)
    \/ SubscribeToHubStep(FALSE)
    \/ QueuedPlaceCellStep(FALSE, MaxMoves, MaxPenalties, GameProbes)
    \/ ClearCellStep(FALSE, GameClears)
    \/ ProcessEventStep(FALSE)
    \/ StartTournamentStep(FALSE, MaxTournaments, Seeds, GameDurations)

SpecEmission == Init /\ [][NextEmission]_vars
\* The clearing: a game played to its end with the rule violation of
\* SpecGame, while the player clears the cell filled last, a given cell and
\* a cell off the board; every response is observed, and the hub executes
\* no message.
ClearProbes == { <<8, 8>>, <<0, 1>>, <<9, 0>> }

NextClear ==
    \/ RegisterPlayerStep(TRUE, AuditNames)
    \/ SubscribeToHubStep(TRUE)
    \/ QueuedPlaceCellStep(TRUE, MaxMoves, MaxPenalties, GameProbes)
    \/ ClearCellStep(TRUE, ClearProbes)
    \/ ProcessEventStep(TRUE)
    \/ StartTournamentStep(TRUE, MaxTournaments, Seeds, GameDurations)

SpecClear == Init /\ [][NextClear]_vars
(***************************************************************************)
(* The polling of useArena: every 3 seconds, on every block notification   *)
(* and after every move the browser asks the hub for the tournament and    *)
(* the player's chain for the game state.  A poll does not wait for the    *)
(* poll before it, so answers may arrive in any order.                     *)
(***************************************************************************)
MaxInflight == 1

\* refreshTournamentInternal: the hub's activeTournament; a tournament with
\* another id than the last one seen clears the game state and its backup.
refreshTournamentInternal ==
    LET t == activeTournament(HubChain)
    IN  arena' = IF t # None /\ Some(t.id) # arena.lastTournamentId
                 THEN [arena EXCEPT !.lastTournamentId = Some(t.id),
                                    !.gameState = None,
                                    !.backup = None,
                                    !.tournament = t]
                 ELSE [arena EXCEPT !.tournament = t]

\* arenaApi.getPlayerGameState: the player's chain answers with the game it
\* holds; the answer is on its way to the browser.
getPlayerGameState(p) ==
    arena' = [arena EXCEPT !.inflight = @ \cup {playerGameState(chain[p])}]

\* refreshGameStateInternal, after its await: the answer replaces the game
\* state, and is backed up unless it is null.
refreshGameStateInternal(gs) ==
    /\ gs \in arena.inflight
    /\ arena' = IF gs # None
                THEN [arena EXCEPT !.inflight = @ \ {gs}, !.gameState = gs, !.backup = gs]
                ELSE [arena EXCEPT !.inflight = @ \ {gs}, !.gameState = None]

refreshTournamentStep ==
    /\ refreshTournamentInternal
    /\ UNCHANGED <<chains, client>>

getPlayerGameStateStep ==
    \E p \in Players :
        /\ chain[p].player # None
        /\ Cardinality(arena.inflight) < MaxInflight
        /\ getPlayerGameState(p)
        /\ UNCHANGED <<chains, client>>

refreshGameStateStep ==
    \E gs \in arena.inflight :
        /\ refreshGameStateInternal(gs)
        /\ UNCHANGED <<chains, client>>

\* The polling browser of a player in a season of two tournaments.
NextPoll ==
    \/ RegisterPlayerStep(FALSE, AuditNames)
    \/ SubscribeToHubStep(FALSE)
    \/ PlaceCellStep(FALSE, MaxArenaMoves, MaxArenaMoves, SeasonProbes)
    \/ ProcessEventStep(FALSE)
    \/ StartTournamentStep(FALSE, MaxSeasonTournaments, SeasonSeeds, ArenaDurations)
    \/ EndTournamentStep(FALSE)
    \/ DeliverStep(FALSE)
    \/ refreshTournamentStep
    \/ getPlayerGameStateStep
    \/ refreshGameStateStep

SpecPoll == Init /\ [][NextPoll]_vars
(***************************************************************************)
(* The hub's leaderboard over two tournaments.  A participant's chain      *)
(* reports a game in progress (the move-sync message of a move) or a       *)
(* finished game (the completion message and then the move-sync message    *)
(* of the completing move) whenever a tournament has been announced: its   *)
(* view of the tournament may lag behind the hub's.                        *)
(***************************************************************************)
MaxReports == 3

LedgerPenalties == {0, 1}

LedgerReportStep(penalties_) ==
    \E p \in DOMAIN chain : \E finished \in BOOLEAN : \E penalties \in penalties_ :
        /\ chain[p].player # None
        /\ hub.active_tournament # None
        /\ outbox[p] = << >>
        /\ Len(leaderboard_log) < MaxReports
        /\ EntryOf(hub, p).move_count < MaxReports \/ EntryOf(hub, p).completed
        /\ LET g == ReportedGame(finished, now, penalties)
           IN  outbox' = [outbox EXCEPT ![p] = PlaceCellMessages(p, g, now, 0, 0, 3)]
        /\ UNCHANGED <<now, hub, event_log, leaderboard_log, past_tournaments, chain>>
        /\ Observe(FALSE, Idle)

NextLedger ==
    \/ TickStep(FALSE)
    \/ RegisterPlayerStep(FALSE, Names)
    \/ StartTournamentStep(FALSE, MaxSeasonTournaments, Seeds, ArenaDurations)
    \/ EndTournamentStep(FALSE)
    \/ LedgerReportStep(LedgerPenalties)
    \/ DeliverStep(FALSE)

SpecLedger == Init /\ [][NextLedger]_vars
(***************************************************************************)
(* The suspicious-move detector of useArena: placeCellFn records the       *)
(* browser clock of every move before it submits the move to the player's  *)
(* chain.                                                                  *)
(***************************************************************************)
BURST_THRESHOLD == 3

FAST_MOVE_INTERVAL_MS == 5000

MaxRecorded == 4

\* Milliseconds of the browser clock between two calls of recordMove.
DetectorGaps == {1, FAST_MOVE_INTERVAL_MS, FAST_MOVE_INTERVAL_MS + 1}

DetectorProbes == {<<0, 1, 5>>}

\* Date.now() at a call of recordMove.
DateNow(a, gap) ==
    (IF a.recorded = << >> THEN 0 ELSE a.recorded[Len(a.recorded)]) + gap

\* recordMove that takes a gap of exactly FAST_MOVE_INTERVAL_MS for slow.
recordMove_StrictlyFaster(a, dateNow) ==
    LET pushed == Append(a.moveTimestamps, dateNow)
        ts == IF Len(pushed) > BURST_THRESHOLD THEN Tail(pushed) ELSE pushed
        allFast == \A i \in 2..Len(ts) : ts[i] - ts[i - 1] < FAST_MOVE_INTERVAL_MS
    IN  [ a EXCEPT !.moveTimestamps = ts,
                   !.isSuspicious = IF Len(ts) >= BURST_THRESHOLD /\ allFast THEN TRUE ELSE @,
                   !.recorded = Append(@, dateNow),
                   !.sinceReset = @ + 1 ]

\* recordMove: push, shift, and flag when every interval of a full window
\* is fast.
recordMove(a, dateNow) ==
    LET pushed == Append(a.moveTimestamps, dateNow)
        ts == IF Len(pushed) > BURST_THRESHOLD THEN Tail(pushed) ELSE pushed
        allFast == \A i \in 2..Len(ts) : ~(ts[i] - ts[i - 1] > FAST_MOVE_INTERVAL_MS)
    IN  [ a EXCEPT !.moveTimestamps = ts,
                   !.isSuspicious = IF Len(ts) >= BURST_THRESHOLD /\ allFast THEN TRUE ELSE @,
                   !.recorded = Append(@, dateNow),
                   !.sinceReset = @ + 1 ]

\* reset: an empty window and no flag.
reset(a) ==
    [ a EXCEPT !.moveTimestamps = << >>, !.isSuspicious = FALSE, !.sinceReset = 0 ]

\* placeCellFn up to the end of arenaApi.placeCell: recordMove, then the
\* PlaceCell operation on the player's chain.
placeCellFn(p, row, col, value, dateNow) ==
    /\ arena' = recordMove(arena, dateNow)
    /\ PlaceCell(p, row, col, value)

placeCellFnStep(gaps, maxMoves, probes) ==
    \E p \in DOMAIN chain : \E m \in SolverMoves(chain[p]) \cup probes : \E gap \in gaps :
        /\ Len(arena.recorded) < MaxRecorded
        /\ MoveCount(chain[p]) < maxMoves
        /\ placeCellFn(p, m[1], m[2], m[3], DateNow(arena, gap))
        /\ last' = Response("PlaceCell", p, p, m,
                            PlaceCellAccepts(chain[p], now, m[1], m[2], m[3]))
        /\ UNCHANGED <<move_log, client>>

resetStep ==
    /\ arena.sinceReset > 0
    /\ arena' = reset(arena)
    /\ last' = Idle
    /\ UNCHANGED <<now, hub, event_log, leaderboard_log, past_tournaments, chain,
                   outbox, move_log, client>>

NextDetector ==
    \/ RegisterPlayerStep(FALSE, Names)
    \/ SubscribeToHubStep(FALSE)
    \/ StartTournamentStep(FALSE, MaxTournaments, Seeds, GameDurations)
    \/ ProcessEventStep(FALSE)
    \/ placeCellFnStep(DetectorGaps, MaxRecorded, DetectorProbes)
    \/ resetStep

SpecDetector == Init /\ [][NextDetector]_vars
(***************************************************************************)
(* ensureWasmInit and its callers.  JavaScript runs one callback at a      *)
(* time, so a step is the code between two awaits.                         *)
(***************************************************************************)
MaxWasmCalls == 2

\* ensureWasmInit that does not look at wasmInitPromise.
ensureWasmInit_NoPromiseCheck(w, caller) ==
    IF w.wasmInitialized THEN [w EXCEPT !.at[caller] = "resumed", !.calls[caller] = @ + 1]
    ELSE [w EXCEPT !.wasmInitPromise = Some("pending"),
                   !.importing = @ + 1,
                   !.at[caller] = "awaiting",
                   !.calls[caller] = @ + 1]

\* ensureWasmInit up to its first await: return when initialised, wait for
\* the promise when there is one, otherwise start the initialisation and
\* wait for it.
ensureWasmInit(w, caller) ==
    IF w.wasmInitialized THEN [w EXCEPT !.at[caller] = "resumed", !.calls[caller] = @ + 1]
    ELSE IF w.wasmInitPromise # None
    THEN [w EXCEPT !.at[caller] = "awaiting", !.calls[caller] = @ + 1]
    ELSE [w EXCEPT !.wasmInitPromise = Some("pending"),
                   !.importing = @ + 1,
                   !.at[caller] = "awaiting",
                   !.calls[caller] = @ + 1]

\* import('@linera/client') has resolved: initialize() is called.
CallInitialize(w) ==
    [w EXCEPT !.importing = @ - 1,
              !.initializing = @ + 1,
              !.initializeCalls = @ + 1]

\* initialize() has returned or thrown: the promise settles.
Initialized(w, ok) ==
    IF ok
    THEN [w EXCEPT !.initializing = @ - 1,
                   !.wasmInitialized = TRUE,
                   !.wasmInitPromise = Some("fulfilled")]
    ELSE [w EXCEPT !.initializing = @ - 1,
                   !.wasmInitPromise =
                       IF @ = Some("fulfilled") THEN @ ELSE Some("rejected")]

\* A caller that awaits the promise continues once the promise has settled.
Resumed(w, caller) ==
    [w EXCEPT !.at[caller] =
        IF w.wasmInitPromise = Some("fulfilled") THEN "resumed" ELSE "threw"]

ensureWasmInitStep ==
    \E caller \in WasmCallers :
        /\ client.wasm.at[caller] = "idle"
        /\ client.wasm.calls[caller] < MaxWasmCalls
        /\ client' = [client EXCEPT !.wasm = ensureWasmInit(@, caller)]
        /\ client'.wasm.initializeCalls + client'.wasm.importing <= MaxWasmCalls
        /\ UNCHANGED <<chains, arena>>

CallInitializeStep ==
    /\ client.wasm.importing > 0
    /\ client' = [client EXCEPT !.wasm = CallInitialize(@)]
    /\ UNCHANGED <<chains, arena>>

InitializedStep ==
    \E ok \in BOOLEAN :
        /\ client.wasm.initializing > 0
        /\ client' = [client EXCEPT !.wasm = Initialized(@, ok)]
        /\ UNCHANGED <<chains, arena>>

ResumedStep ==
    \E caller \in WasmCallers :
        /\ client.wasm.at[caller] = "awaiting"
        /\ client.wasm.wasmInitPromise \in {Some("fulfilled"), Some("rejected")}
        /\ client' = [client EXCEPT !.wasm = Resumed(@, caller)]
        /\ UNCHANGED <<chains, arena>>

\* The caller's function has returned or thrown; it may be called again.
ReturnedStep ==
    \E caller \in WasmCallers \ {"startPreWarm"} :
        /\ client.wasm.at[caller] \in {"resumed", "threw"}
        /\ client' = [client EXCEPT !.wasm.at[caller] = "idle"]
        /\ UNCHANGED <<chains, arena>>

NextWasm ==
    \/ ensureWasmInitStep
    \/ CallInitializeStep
    \/ InitializedStep
    \/ ResumedStep
    \/ ReturnedStep

SpecWasm == Init /\ [][NextWasm]_vars
(***************************************************************************)
(* The two-phase connection of lineraClient.ts: phase 1 gives the identity *)
(* (a new key and a claimed chain), phase 2 the application handles.  The  *)
(* steps are the pieces of code between two awaits; several calls of       *)
(* connectToLinera may be under way at once, useArena's connect having no  *)
(* guard against a second call.                                            *)
(***************************************************************************)
MaxConnects == 3

MaxQueries == 2

\* The application handle of the chain claimed for a key.
AppOf(key) == [chain |-> key, owner |-> AddressOf(key)]

\* phase2Promise = runPhase2(p1).then(...): a new run for the identity.
StartPhase2(c, key) ==
    [c EXCEPT !.phases.phase2Runs = Append(@, [key |-> key, status |-> "pending"]),
              !.phases.phase2Promise = Some(Len(c.phases.phase2Runs) + 1)]

\* The callback of startPreWarm on the result of runPhase1: phase1Result is
\* set and, on success, phase 2 started.
Phase1Resolved(c, ok) ==
    IF ok
    THEN StartPhase2([c EXCEPT !.keys = @ + 1,
                               !.phases.phase1Promise = "resolved",
                               !.phases.phase1Result = Some(c.keys + 1)],
                     c.keys + 1)
    ELSE [c EXCEPT !.phases.phase1Promise = "resolved"]

\* connectToLinera assigning the identity and storing the session.
Identified(c, call, evmAddress, key) ==
    [c EXCEPT !.phases.userChainId = Some(key),
              !.phases.signerAddress = Some(AddressOf(key)),
              !.phases.connect[call] = [at |-> "idle", evmAddress |-> ""],
              !.localStorage[evmAddress] =
                  SessionOf(key, evmAddress, c.localStorage[evmAddress])]

\* connectToLinera up to its first await: with a phase 1 result it returns
\* at once, otherwise it waits for phase1Promise.
ConnectCalled(c, call, evmAddress) ==
    IF c.phases.phase1Result # None
    THEN [Identified(c, call, evmAddress, c.phases.phase1Result.some) EXCEPT
            !.phases.connects = @ + 1]
    ELSE [c EXCEPT !.phases.connect[call] =
                       [at |-> "awaitPhase1", evmAddress |-> evmAddress],
                   !.phases.connects = @ + 1]

\* connectToLinera after await phase1Promise: with a result it returns,
\* without one it runs phase 1 itself.
ConnectAfterPhase1(c, call) ==
    IF c.phases.phase1Result # None
    THEN Identified(c, call, c.phases.connect[call].evmAddress, c.phases.phase1Result.some)
    ELSE [c EXCEPT !.phases.connect[call].at = "fallback"]

\* connectToLinera after its own runPhase1: it throws on failure, and
\* otherwise takes the new identity and starts phase 2 for it.
ConnectAfterFallback(c, call, ok) ==
    IF ok
    THEN StartPhase2(Identified([c EXCEPT !.keys = @ + 1,
                                          !.phases.phase1Result = Some(c.keys + 1)],
                                call, c.phases.connect[call].evmAddress, c.keys + 1),
                     c.keys + 1)
    ELSE [c EXCEPT !.phases.connect[call] = [at |-> "idle", evmAddress |-> ""]]

\* The callback on the result of a run of runPhase2: phase2Result is set
\* and, on success, the handles.
Phase2Resolved(c, run, ok) ==
    LET key == c.phases.phase2Runs[run].key
    IN  IF ok
        THEN [c EXCEPT !.phases.phase2Runs[run].status = "fulfilled",
                       !.phases.phase2Result = Some(AppOf(key)),
                       !.phases.lineraApp = Some(AppOf(key)),
                       !.phases.hubApp = Some(AppOf(key))]
        ELSE [c EXCEPT !.phases.phase2Runs[run].status = "failed",
                       !.phases.phase2Result = None]

\* query, mutate and queryHub up to the await in ensureAppReady.
QueryCalled(c) ==
    LET ph == c.phases
        called == [c EXCEPT !.phases.queries = @ + 1]
    IN  IF ph.userChainId = None
        THEN [called EXCEPT !.phases.query = [at |-> "threw", run |-> 0, handle |-> None]]
        ELSE IF ph.lineraApp # None
        THEN [called EXCEPT !.phases.query =
                                [at |-> "proceeded", run |-> 0, handle |-> ph.lineraApp]]
        ELSE IF ph.phase2Promise # None
        THEN [called EXCEPT !.phases.query =
                                [at |-> "awaiting", run |-> ph.phase2Promise.some,
                                 handle |-> None]]
        ELSE IF ph.phase1Result # None
        THEN [StartPhase2(called, ph.phase1Result.some) EXCEPT
                !.phases.query = [at |-> "awaiting", run |-> Len(ph.phase2Runs) + 1,
                                  handle |-> None]]
        ELSE [called EXCEPT !.phases.query = [at |-> "threw", run |-> 0, handle |-> None]]

\* ensureAppReady after await phase2Promise, and the query that follows:
\* the handle of phase2Result is taken; without a handle it throws
\* 'Application not ready. Please reconnect.'
QueryResumed(c) ==
    LET ph == c.phases
        app == IF ph.phase2Result # None THEN ph.phase2Result ELSE ph.lineraApp
    IN  [c EXCEPT !.phases.lineraApp = app,
                  !.phases.hubApp = IF ph.phase2Result # None THEN ph.phase2Result ELSE @,
                  !.phases.query = [at |-> IF app # None THEN "proceeded" ELSE "threw",
                                    run |-> ph.query.run, handle |-> app]]

Phase1ResolvedStep ==
    \E ok \in BOOLEAN :
        /\ client.phases.phase1Promise = "pending"
        /\ client' = Phase1Resolved(client, ok)
        /\ UNCHANGED <<chains, arena>>

ConnectCalledStep ==
    \E call \in ConnectCalls : \E evmAddress \in EvmAddresses :
        /\ client.phases.connect[call].at = "idle"
        /\ client.phases.connects < MaxConnects
        /\ client' = ConnectCalled(client, call, evmAddress)
        /\ UNCHANGED <<chains, arena>>

ConnectAfterPhase1Step ==
    \E call \in ConnectCalls :
        /\ client.phases.connect[call].at = "awaitPhase1"
        /\ client.phases.phase1Promise = "resolved"
        /\ client' = ConnectAfterPhase1(client, call)
        /\ UNCHANGED <<chains, arena>>

ConnectAfterFallbackStep ==
    \E call \in ConnectCalls : \E ok \in BOOLEAN :
        /\ client.phases.connect[call].at = "fallback"
        /\ ok => client.keys < MaxKeys
        /\ client' = ConnectAfterFallback(client, call, ok)
        /\ UNCHANGED <<chains, arena>>

Phase2ResolvedStep ==
    \E run \in DOMAIN client.phases.phase2Runs : \E ok \in BOOLEAN :
        /\ client.phases.phase2Runs[run].status = "pending"
        /\ client' = Phase2Resolved(client, run, ok)
        /\ UNCHANGED <<chains, arena>>

QueryCalledStep ==
    /\ client.phases.query.at = "idle"
    /\ client.phases.queries < MaxQueries
    /\ client' = QueryCalled(client)
    /\ UNCHANGED <<chains, arena>>

QueryResumedStep ==
    /\ client.phases.query.at = "awaiting"
    /\ client.phases.phase2Runs[client.phases.query.run].status # "pending"
    /\ client' = QueryResumed(client)
    /\ UNCHANGED <<chains, arena>>

\* The query has returned or thrown; the next one may be made.
QueryReturnedStep ==
    /\ client.phases.query.at \in {"proceeded", "threw"}
    /\ client' = [client EXCEPT !.phases.query.at = "idle"]
    /\ UNCHANGED <<chains, arena>>

NextConnect ==
    \/ Phase1ResolvedStep
    \/ ConnectCalledStep
    \/ ConnectAfterPhase1Step
    \/ ConnectAfterFallbackStep
    \/ Phase2ResolvedStep
    \/ QueryCalledStep
    \/ QueryResumedStep
    \/ QueryReturnedStep

SpecConnect == Init /\ [][NextConnect]_vars
(***************************************************************************)
(* Connecting and disconnecting in useArena.  The polling effect starts    *)
(* an interval timer and registers a block-notification callback when the  *)
(* status becomes Connected; disconnect clears the data and the timer.     *)
(* lineraClient has no function that removes a notification callback.      *)
(***************************************************************************)
MaxListeners == 2

\* connect, after connectToLinera has returned, and the polling effect that
\* the new status triggers: setInterval(poll, 3000) and onNotification.
connect(a) ==
    [a EXCEPT !.status = "Connected",
              !.pollRef = TRUE,
              !.listeners = @ + 1]

\* disconnect: the data is set to null and the interval timer cleared.
disconnect(a) ==
    [a EXCEPT !.status = "Disconnected",
              !.player = None,
              !.tournament = None,
              !.puzzleBoard = None,
              !.gameState = None,
              !.pollRef = FALSE]

\* poll, its first half: refreshTournamentInternal with the puzzle board of
\* an active tournament.
poll(a) ==
    LET t == activeTournament(HubChain)
        changed == t # None /\ Some(t.id) # a.lastTournamentId
    IN  [a EXCEPT !.lastTournamentId = IF changed THEN Some(t.id) ELSE @,
                  !.gameState = IF changed THEN None ELSE @,
                  !.backup = IF changed THEN None ELSE @,
                  !.tournament = t,
                  !.puzzleBoard = IF IsActive(t) THEN puzzle_board(HubChain) ELSE @]

\* registerPlayerFn: the RegisterPlayer operation, then setPlayer.
registerPlayerFn(p, name) ==
    /\ RegisterPlayer(p, name)
    /\ arena' = [arena EXCEPT !.player = Some(name)]

connectStep ==
    /\ arena.status = "Disconnected"
    /\ arena.listeners < MaxListeners
    /\ arena' = connect(arena)
    /\ UNCHANGED <<chains, client>>

disconnectStep ==
    /\ arena.status = "Connected"
    /\ arena' = disconnect(arena)
    /\ UNCHANGED <<chains, client>>

\* The interval timer fires.
intervalStep ==
    /\ arena.pollRef
    /\ arena' = poll(arena)
    /\ UNCHANGED <<chains, client>>

\* The chain handle reports a block to a registered callback.
notificationStep ==
    /\ arena.listeners > 0
    /\ arena' = poll(arena)
    /\ UNCHANGED <<chains, client>>

\* poll, its second half: the query for the game state is sent.
pollGameStateStep ==
    \E p \in Players :
        /\ arena.pollRef \/ arena.listeners > 0
        /\ Cardinality(arena.inflight) < MaxInflight
        /\ getPlayerGameState(p)
        /\ UNCHANGED <<chains, client>>

registerPlayerFnStep(names) ==
    \E p \in DOMAIN chain : \E name \in names :
        /\ arena.status = "Connected"
        /\ chain[p].player = None
        /\ registerPlayerFn(p, name)
        /\ UNCHANGED <<last, move_log, client>>

NextSession ==
    \/ connectStep
    \/ disconnectStep
    \/ intervalStep
    \/ notificationStep
    \/ pollGameStateStep
    \/ refreshGameStateStep
    \/ registerPlayerFnStep(Names)
    \/ SubscribeToHubStep(FALSE)
    \/ StartTournamentStep(FALSE, MaxTournaments, Seeds, ArenaDurations)
    \/ ProcessEventStep(FALSE)
    \/ QueuedPlaceCellStep(FALSE, MaxArenaMoves, 0, {})

SpecSession == Init /\ [][NextSession]_vars

\* A duel: two participants, each on a chain of its own, play the first move
\* of one tournament (the solver's move, or the rule violation of Scenario B)
\* and the hub executes their messages in whatever order they arrive.
DuelProbes == {<<3, 5, 7>>}

NextDuel ==
    \/ TickStep(FALSE)
    \/ RegisterPlayerStep(FALSE, Names)
    \/ SubscribeToHubStep(FALSE)
    \/ PlaceCellStep(FALSE, MaxArenaMoves, MaxArenaMoves, DuelProbes)
    \/ ProcessEventStep(FALSE)
    \/ StartTournamentStep(FALSE, MaxTournaments, Seeds, ArenaDurations)
    \/ DeliverStep(FALSE)

SpecDuel == InitDuel /\ [][NextDuel]_vars

(***************************************************************************)
(* Claims.                                                                 *)
(***************************************************************************)
\* Everything but the response of the operation.
state == <<now, hub, event_log, leaderboard_log, past_tournaments, chain, outbox>>

\* The tournaments that are active: the hub's and those of its history.
ActiveTournaments ==
    (IF IsActive(hub.active_tournament) THEN {0} ELSE {})
        \cup { i \in 1 .. Len(past_tournaments) : past_tournaments[i].active }

\* C1: a StartTournament issued while a tournament is active is rejected and
\* changes nothing (counter, active tournament, stored puzzle, leaderboard,
\* event log: the whole state stays as it was), and in every reachable state
\* at most one tournament is active.
C1_StartWhileActiveRejected ==
    /\ [][ (last'.op = "StartTournament" /\ IsActive(hub.active_tournament))
              => (~last'.ok /\ UNCHANGED state) ]_vars
    /\ [](Cardinality(ActiveTournaments) <= 1)

\* The administrator has called StartTournament on the hub while the first
\* tournament was active, and was refused.
C1_Witness ==
    /\ last.op = "StartTournament" /\ last.by = Admin /\ last.on = Hub
    /\ ~last.ok
    /\ IsActive(hub.active_tournament)
    /\ hub.tournament_counter = 1

\* The fields of a record that hold a grid, and whether one of them holds
\* the grid sol.
GridFields == {"puzzle", "solution", "board", "grid"}

Carries(x, sol) == \E f \in DOMAIN x \cap GridFields : sol = x[f]

EntriesCarry(es, sol) == \E i \in DOMAIN es : Carries(es[i], sol)

EventCarries(e, sol) ==
    \/ Carries(e, sol)
    \/ "entries" \in DOMAIN e /\ EntriesCarry(e.entries, sol)
    \/ "final_rankings" \in DOMAIN e /\ EntriesCarry(e.final_rankings, sol)

MessageCarries(m, sol) ==
    \/ Carries(m, sol)
    \/ "info" \in DOMAIN m /\ Carries(m.info, sol)

\* The move lists verifyGame is asked about.
VerifyInputs == { << >>, << <<3, 5, 9>> >>, << <<3, 5, 7>>, <<3, 5, 9>> >> }

\* No event, no message and no response other than playerGameState holds
\* the grid sol; puzzleBoard gives a puzzle of the generator.
NoLeakBut(sol) ==
    /\ \A i \in DOMAIN event_log : ~EventCarries(event_log[i], sol)
    /\ \A p \in Players : \A i \in DOMAIN outbox[p] : ~MessageCarries(outbox[p][i], sol)
    /\ \A p \in Players :
          /\ ~Carries(player(chain[p]), sol)
          /\ ~Carries(activeTournament(chain[p]), sol)
          /\ sol # puzzle_board(chain[p])
          /\ puzzle_board(chain[p]) = None
                \/ \E seed \in Seeds : puzzle_board(chain[p]) = generate_puzzle(seed).puzzle
    /\ ~Carries(activeTournament(HubChain), sol)
    /\ sol # puzzle_board(HubChain)
    /\ puzzle_board(HubChain) = None
          \/ \E seed \in Seeds : puzzle_board(HubChain) = generate_puzzle(seed).puzzle
    /\ ~Carries(playerGameState(HubChain), sol)
    /\ ~EntriesCarry(leaderboard(hub), sol)
    /\ \A seed \in Seeds : \A moves \in VerifyInputs : ~Carries(verifyGame(seed, moves), sol)

GivenMaskOf(puzzle) == [r \in Idx |-> [c \in Idx |-> puzzle[r][c] # 0]]

GameScore(c) == IF c.game = None THEN 0 ELSE c.game.score

Completed(c) == c.game # None /\ c.game.completed

ClaimedScore(completion_time, start_time, penalties) ==
    LET elapsed == Max(0, completion_time - start_time) \div MICROS_PER_SEC
    IN  Max(0, 10000 - 2 * elapsed - 100 * penalties)

C6_GivenCellsImmutable ==
    \A p \in Players :
        chain[p].game # None =>
            \A r \in Idx, c \in Idx :
                chain[p].game.given_mask[r][c] =>
                    /\ chain[p].current_puzzle.puzzle[r][c] # 0
                    /\ chain[p].game.board[r][c] = chain[p].current_puzzle.puzzle[r][c]

\* A player with a game in progress has tried to overwrite the given cell
\* (0,1), which holds 4, with 5.
C6_Witness ==
    \E p \in Players :
        /\ chain[p].game # None
        /\ last.op = "PlaceCell" /\ last.on = p /\ last.args = <<0, 1, 5>>
        /\ chain[p].game.board[0][1] = 4

\* The reasons for which the claim says a PlaceCell(m) on chain c is rejected.
MustReject(c, time, m) ==
    \/ c.active_tournament = None
    \/ ~c.active_tournament.active
    \/ time > c.active_tournament.end_time_micros
    \/ m[1] \notin 0 .. 8
    \/ m[2] \notin 0 .. 8
    \/ m[3] \notin 1 .. 9
    \/ c.current_puzzle # None /\ c.current_puzzle.puzzle[m[1]][m[2]] # 0

\* C7: a PlaceCell is rejected when no tournament is active, when the time
\* window has elapsed, when row, col or value is out of range, and when the
\* cell is a given; a rejected PlaceCell leaves the whole state unchanged (a
\* game that did not exist stays absent, no message is emitted).
C7_RejectedPlaceCellChangesNothing ==
    [][ last'.op = "PlaceCell" =>
           /\ MustReject(chain[last'.on], now, last'.args) => ~last'.ok
           /\ ~last'.ok => UNCHANGED state ]_vars

\* A registered player without a game has tried a well-formed move on an
\* empty cell after the window of the active tournament elapsed.
C7_Witness ==
    \E p \in Players :
        /\ last.op = "PlaceCell" /\ last.on = p /\ last.args = <<3, 5, 3>>
        /\ ~last.ok
        /\ chain[p].player # None
        /\ chain[p].game = None
        /\ chain[p].active_tournament # None
        /\ chain[p].active_tournament.active
        /\ now > chain[p].active_tournament.end_time_micros

\* The value is in no other cell of the row, the column and the box.
Legal(board, row, col, value) ==
    \A r \in Idx, c \in Idx :
        (<<r, c>> # <<row, col>>
            /\ (r = row \/ c = col
                  \/ (r \div 3 = row \div 3 /\ c \div 3 = col \div 3)))
        => board[r][c] # value

\* C8: an accepted PlaceCell(row, col, value) adds exactly 1 to move_count,
\* sets board[row][col] to value whether or not the placement is legal, and
\* adds 1 to penalty_count if the placement breaks a rule and 0 otherwise
\* (so a legal placement that differs from the solution costs nothing).
C8_AcceptedPlaceCell ==
    [][ (last'.op = "PlaceCell" /\ last'.ok) =>
           LET p    == last'.on
               m    == last'.args
               g    == LoadGame(chain[p], now)
               after == chain'[p].game
           IN  /\ after # None
               /\ after.move_count = g.move_count + 1
               /\ after.board = [g.board EXCEPT ![m[1]][m[2]] = m[3]]
               /\ after.penalty_count =
                     g.penalty_count + (IF Legal(g.board, m[1], m[2], m[3]) THEN 0 ELSE 1)
               /\ validate_placement(g.board, m[1], m[2], m[3])
                     <=> Legal(g.board, m[1], m[2], m[3]) ]_vars

\* Scenario B: the player has placed 7 at (3,5) while column 5 holds a 7:
\* the move was accepted, cost a penalty, and the cell holds 7.
C8_Witness ==
    \E p \in Players :
        /\ last.op = "PlaceCell" /\ last.on = p /\ last.args = <<3, 5, 7>>
        /\ last.ok
        /\ chain[p].game.board[3][5] = 7
        /\ chain[p].game.board[8][5] = 7
        /\ chain[p].game.penalty_count = 1
        /\ chain[p].game.move_count = 1

C10_CountsNeverDecrease ==
    /\ [][ \A p \in Players :
             (chain[p].game # None /\ chain'[p].game # None) =>
                 /\ chain'[p].game.move_count >= chain[p].game.move_count
                 /\ chain'[p].game.penalty_count >= chain[p].game.penalty_count ]_vars
    /\ [][ \A p \in Players : \A m \in GameClears :
             (ClearCell(p, m[1], m[2]) /\ chain[p].game # None) =>
                 /\ chain'[p].game.move_count = chain[p].game.move_count
                 /\ chain'[p].game.penalty_count = chain[p].game.penalty_count ]_vars

\* The player has placed a 2 at (8,8), against the rules, and cleared the
\* cell: the move and the penalty are still counted.
C10_Witness ==
    \E p \in Players :
        /\ chain[p].game # None
        /\ chain[p].game.board[8][8] = 0
        /\ chain[p].game.penalty_count = 1
        /\ chain[p].game.move_count >= 2

\* The tournament a participant's chain knows, as it changes in a step.
TournamentSeenChanges(p) == chain'[p].active_tournament # chain[p].active_tournament

\* C11: StartTournament and EndTournament take effect only when the caller is
\* the administrator and the operation runs on the hub.  Called by anyone
\* else, or on a participant's chain, they are refused and change nothing (no
\* event is emitted either); the counter of tournaments and the history change
\* only in an accepted call of the administrator on the hub, and a
\* participant's chain learns of a tournament only by processing an event.
C11_AdminOnHubOnly ==
    /\ [][ (last'.op \in {"StartTournament", "EndTournament"}
               /\ (last'.by # Admin \/ last'.on # Hub))
              => (~last'.ok /\ UNCHANGED state) ]_vars
    /\ [][ (hub'.tournament_counter # hub.tournament_counter
               \/ past_tournaments' # past_tournaments
               \/ IsActive(hub'.active_tournament) # IsActive(hub.active_tournament))
              => (/\ last'.op \in {"StartTournament", "EndTournament"}
                  /\ last'.ok /\ last'.by = Admin /\ last'.on = Hub) ]_vars
    /\ [][ \A p \in Players :
              TournamentSeenChanges(p) => (last' = Idle /\ UNCHANGED hub) ]_vars

\* A player has called EndTournament on the hub while a tournament was active
\* and was refused; the tournament is still active.
C11_Witness ==
    /\ last.op = "EndTournament" /\ last.by \in Players /\ last.on = Hub
    /\ ~last.ok
    /\ IsActive(hub.active_tournament)

\* The events of one type, in the order of the log, and their tournament ids.
EventsOfType(type) == SelectSeq(event_log, LAMBDA e : e.type = type)

EventIds(type) ==
    LET es == EventsOfType(type) IN [i \in 1 .. Len(es) |-> es[i].tournament_id]

HistoryIds == [i \in 1 .. Len(past_tournaments) |-> past_tournaments[i].id]

StrictlyIncreasing(ids) ==
    \A i, j \in DOMAIN ids : i < j => ids[i] < ids[j]

\* C12: EndTournament called while no tournament is active is refused and
\* changes nothing.  Called by the administrator on the hub while one is
\* active it is accepted, marks that tournament inactive, appends it to the
\* history and emits TournamentEnded for it.  In every reachable state the
\* history holds exactly the ended tournaments, each once and in the order
\* they were ended, all inactive and with strictly increasing ids, and the
\* ids StartTournament has given out are strictly increasing.
C12_HistoryOfEndedTournaments ==
    /\ [][ (last'.op = "EndTournament" /\ ~IsActive(hub.active_tournament))
              => (~last'.ok /\ UNCHANGED state) ]_vars
    /\ [][ (last'.op = "EndTournament" /\ IsActive(hub.active_tournament)
               /\ last'.by = Admin /\ last'.on = Hub)
              => (/\ last'.ok
                  /\ hub'.active_tournament
                        = [hub.active_tournament EXCEPT !.active = FALSE]
                  /\ past_tournaments'
                        = Append(past_tournaments, hub'.active_tournament)
                  /\ Len(event_log') = Len(event_log) + 1
                  /\ SubSeq(event_log', 1, Len(event_log)) = event_log
                  /\ event_log'[Len(event_log')].type = "TournamentEnded"
                  /\ event_log'[Len(event_log')].tournament_id
                        = hub.active_tournament.id) ]_vars
    /\ [](/\ HistoryIds = EventIds("TournamentEnded")
          /\ \A i \in DOMAIN past_tournaments : ~past_tournaments[i].active
          /\ StrictlyIncreasing(HistoryIds)
          /\ StrictlyIncreasing(EventIds("TournamentStarted"))
          /\ IsActive(hub.active_tournament)
                => \A i \in DOMAIN HistoryIds :
                       HistoryIds[i] < hub.active_tournament.id)

\* Two tournaments have been started and ended; the history holds both.
C12_Witness ==
    /\ Len(past_tournaments) = 2
    /\ last.op = "EndTournament" /\ last.ok

\* The undelivered SyncCellPlacement messages of a participant.
PendingPlacements(p) ==
    { outbox[p][i] : i \in { j \in DOMAIN outbox[p] :
                                outbox[p][j].type = "SyncCellPlacement" } }

\* C13: the SyncCellPlacement messages of two different participants commute:
\* whichever of the two the hub executes first, the leaderboard entry of each
\* participant is the same after both.
C13_PlacementsOfTwoParticipantsCommute ==
    \A a, b \in DOMAIN chain :
        a # b =>
            \A ma \in PendingPlacements(a) : \A mb \in PendingPlacements(b) :
                LET ab == OnSyncCellPlacement(OnSyncCellPlacement(hub, ma), mb)
                    ba == OnSyncCellPlacement(OnSyncCellPlacement(hub, mb), ma)
                IN  /\ ab.leaderboard[a] = ba.leaderboard[a]
                    /\ ab.leaderboard[b] = ba.leaderboard[b]

\* The placements of both participants are in flight while the tournament is
\* active, one of them a rule violation; the hub has executed neither yet.
C13_Witness ==
    /\ IsActive(hub.active_tournament)
    /\ \A p \in Wallets : PendingPlacements(p) # {} /\ hub.leaderboard[p] = None
    /\ \E a, b \in Wallets :
          /\ \E m \in PendingPlacements(a) : m.penalty_count = 1
          /\ \E m \in PendingPlacements(b) : m.penalty_count = 0

\* What the hub does with a sync message, whatever its type.
Execute(h, m) ==
    CASE m.type = "SyncPlayer" -> OnSyncPlayer(h, m)
      [] m.type = "SyncCellPlacement" -> OnSyncCellPlacement(h, m)
      [] m.type = "SyncBoardComplete" -> OnSyncBoardComplete(h, m)

\* The undelivered placement and completion messages of a participant.
PendingSyncs(p) ==
    { outbox[p][i] : i \in { j \in DOMAIN outbox[p] :
                                outbox[p][j].type # "SyncPlayer" } }

\* What C14 compares: the entry's score, move_count, penalty_count and
\* completed, and the tournament's totals.
Standing(h, wallet) ==
    [ entry |-> IF h.leaderboard[wallet] = None THEN None
                ELSE [ f \in {"score", "move_count", "penalty_count", "completed"}
                         |-> h.leaderboard[wallet][f] ],
      total_completions |-> h.active_tournament.total_completions,
      total_players |-> h.active_tournament.total_players ]

EntryCount(h, wallet, f) ==
    IF h.leaderboard[wallet] = None THEN 0 ELSE h.leaderboard[wallet][f]

\* C14: the hub's sync handlers are idempotent per identity: executing the
\* same SyncCellPlacement or SyncBoardComplete a second time leaves the
\* sender's entry (score, move_count, penalty_count, completed) and the
\* tournament's total_completions and total_players as the first execution
\* left them; and executing a message never lowers the entry's move_count or
\* penalty_count.
C14_SyncHandlersIdempotent ==
    \A p \in DOMAIN chain : \A m \in PendingSyncs(p) :
        IsActive(hub.active_tournament) =>
            LET once == Execute(hub, m)
                twice == Execute(once, m)
            IN  /\ Standing(twice, p) = Standing(once, p)
                /\ EntryCount(once, p, "move_count") >= EntryCount(hub, p, "move_count")
                /\ EntryCount(once, p, "penalty_count")
                      >= EntryCount(hub, p, "penalty_count")


\* The part of C14 that holds: a second execution of the same
\* SyncBoardComplete changes nothing of the standing; a second execution of
\* the same SyncCellPlacement leaves score, penalty_count, completed and the
\* totals alone but counts one more move unless the entry is completed; and no
\* execution lowers move_count or penalty_count.
SyncHandlersIdempotentButMoveCount ==
    \A p \in DOMAIN chain : \A m \in PendingSyncs(p) :
        IsActive(hub.active_tournament) =>
            LET once == Execute(hub, m)
                twice == Execute(once, m)
                a == Standing(once, p)
                b == Standing(twice, p)
            IN  /\ m.type = "SyncBoardComplete" => b = a
                /\ m.type = "SyncCellPlacement" =>
                      /\ [b EXCEPT !.entry.move_count = 0]
                            = [a EXCEPT !.entry.move_count = 0]
                      /\ b.entry.move_count
                            = a.entry.move_count + (IF a.entry.completed THEN 0 ELSE 1)
                /\ EntryCount(once, p, "move_count") >= EntryCount(hub, p, "move_count")
                /\ EntryCount(once, p, "penalty_count")
                      >= EntryCount(hub, p, "penalty_count")

\* The tournaments the hub has created, and the puzzle the hub generated for
\* a tournament id: the stored one for the current tournament, for an earlier
\* one the puzzle of the seed its record in the history holds.
HubTournaments ==
    (IF hub.active_tournament = None THEN {} ELSE {hub.active_tournament})
        \cup { past_tournaments[i] : i \in DOMAIN past_tournaments }

HubPuzzleOf(id) ==
    IF hub.active_tournament # None /\ hub.active_tournament.id = id
    THEN hub.current_puzzle.puzzle
    ELSE generate_puzzle((CHOOSE t \in HubTournaments : t.id = id).seed).puzzle

\* C15: on every participant's chain a game is set up from the puzzle the hub
\* generated for the same tournament id: the game's given_mask is the mask of
\* that puzzle, its given cells hold that puzzle's digits, and the PlaceCell
\* that starts the game leaves every other cell as that puzzle has it.
C15_SamePuzzleAsHub ==
    /\ [](\A p \in DOMAIN chain :
            chain[p].game # None =>
                LET puzzle == HubPuzzleOf(chain[p].active_tournament.id)
                IN  /\ chain[p].game.given_mask = GivenMaskOf(puzzle)
                    /\ \A r, c \in Idx :
                          puzzle[r][c] # 0 => chain[p].game.board[r][c] = puzzle[r][c])
    /\ [][ \A p \in DOMAIN chain :
              (chain[p].game = None /\ chain'[p].game # None) =>
                  /\ last'.op = "PlaceCell" /\ last'.on = p /\ last'.ok
                  /\ LET puzzle == HubPuzzleOf(chain[p].active_tournament.id)
                     IN  \A r, c \in Idx :
                            <<r, c>> # <<last'.args[1], last'.args[2]>> =>
                                chain'[p].game.board[r][c] = puzzle[r][c] ]_vars

\* A participant has started a game in the second tournament, whose seed is
\* not the first one's.
C15_Witness ==
    \E p \in DOMAIN chain :
        /\ chain[p].game # None
        /\ chain[p].active_tournament.id = 2
        /\ chain[p].active_tournament.seed # past_tournaments[1].seed
        /\ last.op = "PlaceCell" /\ last.ok

\* The 3 x 3 boxes, by the index of their top left cell.
BoxCells(br, bc) ==
    { <<r, c>> \in Idx \X Idx : r \div BOX_SIZE = br /\ c \div BOX_SIZE = bc }

\* A complete valid grid: every row, column and box holds every digit.
ValidSolution(sol) ==
    /\ \A r \in Idx : { sol[r][c] : c \in Idx } = Digits
    /\ \A c \in Idx : { sol[r][c] : r \in Idx } = Digits
    /\ \A br, bc \in 0 .. (BOX_SIZE - 1) :
          { sol[cell[1]][cell[2]] : cell \in BoxCells(br, bc) } = Digits

ZeroCells(puzzle) == { <<r, c>> \in Idx \X Idx : puzzle[r][c] = 0 }

C17_ReplayMatchesLiveGame ==
    \A p \in DOMAIN chain :
        chain[p].game # None =>
            LET v == verify_game(chain[p].active_tournament.seed, move_log[p])
            IN  /\ v.penalty_count = chain[p].game.penalty_count
                /\ v.total_moves = chain[p].game.move_count
                /\ v.board_complete = chain[p].game.completed

\* The hub executes, in this step, a SyncPlayer of a participant.
DeliversSyncPlayer(p) ==
    /\ outbox[p] # << >>
    /\ Head(outbox[p]).type = "SyncPlayer"
    /\ outbox'[p] = Tail(outbox[p])

Registered(h) == { w \in Wallets : h.players[w] # None }

\* C18: registration is idempotent per identity.  RegisterPlayer of a
\* registered participant changes only the display name of its record, and a
\* SyncPlayer for an identity already in the hub's registry changes only the
\* display name of that entry: the registry keeps one entry for the identity,
\* the player count is not incremented again (it is the number of registered
\* identities) and no other entry changes.
C18_RegistrationIdempotent ==
    /\ [][ (last'.op = "RegisterPlayer" /\ chain[last'.on].player # None) =>
              /\ chain' = [chain EXCEPT
                             ![last'.on].player.discord_username = last'.args[1]]
              /\ UNCHANGED hub ]_vars
    /\ [][ \A p \in DOMAIN chain :
              (DeliversSyncPlayer(p) /\ hub.players[p] # None) =>
                  /\ hub' = [hub EXCEPT !.players[p].discord_username =
                                            Head(outbox[p]).info.discord_username]
                  /\ UNCHANGED event_log ]_vars
    /\ [](hub.player_count = Cardinality(Registered(hub)))

\* A participant registered as neo has registered again as trinity and the
\* hub has executed both messages, while the other participant is registered
\* too.
C18_Witness ==
    \E p \in Wallets :
        /\ hub.players[p] # None
        /\ hub.players[p].discord_username = "trinity"
        /\ \E i \in DOMAIN event_log :
              /\ event_log[i].type = "PlayerRegistered"
              /\ event_log[i].wallet = p
              /\ event_log[i].discord_username = "neo"
        /\ hub.player_count = 2

IsPrefix(old, new) ==
    /\ Len(old) <= Len(new)
    /\ SubSeq(new, 1, Len(old)) = old

\* C19: the event log, the leaderboard audit log and the tournament history
\* are append-only: in every step the old log is a prefix of the new one.  An
\* operation that is rejected appends nothing to any of them.
C19_LogsAppendOnly ==
    /\ [][ /\ IsPrefix(event_log, event_log')
           /\ IsPrefix(leaderboard_log, leaderboard_log')
           /\ IsPrefix(past_tournaments, past_tournaments') ]_vars
    /\ [][ ~last'.ok =>
              UNCHANGED <<event_log, leaderboard_log, past_tournaments>> ]_vars

\* The three logs have entries (a completion was audited, the tournament was
\* ended) and the operation executed last was rejected.
C19_Witness ==
    /\ Len(event_log) >= 4
    /\ Len(leaderboard_log) >= 1
    /\ Len(past_tournaments) >= 1
    /\ ~last.ok

\* A participant's chain processes, in this step, the event e of the stream.
Processes(p, e) ==
    /\ chain[p].subscribed
    /\ chain[p].next_event <= Len(event_log)
    /\ e = event_log[chain[p].next_event]
    /\ chain'[p].next_event = chain[p].next_event + 1

\* C20: when a participant's chain that has a game processes a lifecycle
\* event of a tournament with another id, the game is reset to NotStarted and
\* its board is gone; the chain holds the puzzle of the event's seed.  The
\* next accepted PlaceCell sets up a fresh game from the puzzle of the chain's
\* tournament: its board is that puzzle with the one cell placed, the given
\* mask is that puzzle's, the move is the first one counted, the only penalty
\* is this move's, and the game is not completed.
C20_GameResetOnNewTournament ==
    /\ [][ \A p \in DOMAIN chain : \A i \in DOMAIN event_log :
              LET e == event_log[i]
              IN  (/\ Processes(p, e)
                   /\ e.type \in {"TournamentStarted", "TournamentEnded"}
                   /\ chain[p].game # None
                   /\ e.tournament_id # chain[p].active_tournament.id)
                  => /\ chain'[p].game = None
                     /\ e.type = "TournamentStarted"
                     /\ chain'[p].active_tournament.id = e.tournament_id
                     /\ chain'[p].current_puzzle = generate_puzzle(e.seed) ]_vars
    /\ [][ (last'.op = "PlaceCell" /\ last'.ok /\ chain[last'.on].game = None) =>
              LET p == last'.on
                  m == last'.args
                  puzzle == generate_puzzle(chain[p].active_tournament.seed).puzzle
                  g == chain'[p].game
              IN  /\ g.board = [puzzle EXCEPT ![m[1]][m[2]] = m[3]]
                  /\ g.given_mask = GivenMaskOf(puzzle)
                  /\ g.move_count = 1
                  /\ g.penalty_count =
                        (IF validate_placement(puzzle, m[1], m[2], m[3]) THEN 0 ELSE 1)
                  /\ ~g.completed
                  /\ g.start_time_micros = now ]_vars

\* A participant that played in the first tournament (its placement is still
\* on the way to the hub) has processed the start of the second one: it has
\* no game.
C20_Witness ==
    \E p \in DOMAIN chain :
        /\ chain[p].active_tournament # None
        /\ chain[p].active_tournament.id = 2
        /\ chain[p].game = None
        /\ \E i \in DOMAIN outbox[p] : outbox[p][i].type = "SyncCellPlacement"

CompletedOnChain(p) == chain[p].game # None /\ chain[p].game.completed

CompletedOnHub(p) == hub.leaderboard[p] # None /\ hub.leaderboard[p].completed

\* The hub executes, in this step, the oldest message of a participant.
DeliversMessage(p) == outbox[p] # << >> /\ outbox'[p] = Tail(outbox[p])

\* What surrounds the liveness in C21: the execution of a message by the hub
\* changes nothing on any participant's chain, and a PlaceCell is decided on
\* the participant's chain alone: it leaves the hub as it is and only adds to
\* the participant's undelivered messages.
SyncIsFireAndForget ==
    /\ [][ (\E p \in DOMAIN chain : DeliversMessage(p)) => UNCHANGED chain ]_vars
    /\ [][ last'.op = "PlaceCell" =>
              /\ UNCHANGED hub
              /\ last'.ok = PlaceCellAccepts(chain[last'.on], now,
                                last'.args[1], last'.args[2], last'.args[3])
              /\ IsPrefix(outbox[last'.on], outbox'[last'.on]) ]_vars

ElapsedSeconds(time, start) == SatSub(time, start) \div MICROS_PER_SEC

Scored == {p \in DOMAIN hub.leaderboard : hub.leaderboard[p] # None}

Finished == {p \in Scored : hub.leaderboard[p].completed}

C22_BaseScoreBoundedMonotone ==
    /\ \A p \in Scored : hub.leaderboard[p].score \in 0 .. BASE_SCORE
    /\ \A p \in Finished :
         LET e     == hub.leaderboard[p]
             start == hub.active_tournament.start_time_micros
             secs  == ElapsedSeconds(e.completion_time_micros, start)
         IN  \A time \in ScoreTimes : \A penalties \in ScorePenalties :
               LET other == base_score(time, start, penalties)
               IN  /\ (secs <= ElapsedSeconds(time, start) /\ e.penalty_count <= penalties)
                         => other <= e.score
                   /\ (ElapsedSeconds(time, start) <= secs /\ penalties <= e.penalty_count)
                         => e.score <= other
                   /\ other \in 0 .. BASE_SCORE

\* A finished game whose deductions exceed 10000 is on the leaderboard with
\* the score 0.
C22_Witness ==
    \E p \in Finished :
        LET e == hub.leaderboard[p]
        IN  /\ e.score = 0
            /\ ElapsedSeconds(e.completion_time_micros,
                              hub.active_tournament.start_time_micros) * TIME_PENALTY_PER_SEC
                 + e.penalty_count * MOVE_PENALTY > BASE_SCORE


(***************************************************************************)
(* C23: the score of a completed board is 10000 less 2 points for each     *)
(* second between the start of the tournament and the completion and less  *)
(* 100 points for each penalty, and 0 where that is negative; a board in   *)
(* progress is listed with the same formula applied to the time of its     *)
(* last reported move.                                                     *)
(***************************************************************************)
Points(secs, penalties, perSecond, perPenalty) ==
    Max(0, BASE_SCORE - secs * perSecond - penalties * perPenalty)

C24_SignerSurvivesReload ==
    [][(client.connection = None /\ client'.connection # None) =>
          LET evmAddress == client'.connection.address
              stored     == client.localStorage[evmAddress]
          IN  stored # None =>
                /\ client'.connection.signerAddress = stored.signerAddress
                /\ client'.localStorage[evmAddress].privateKeyHex = stored.privateKeyHex]_vars


(***************************************************************************)
(* C25: in the table of the leaderboard page and in the mini leaderboard   *)
(* of the game page every completed entry stands above every entry in      *)
(* progress.                                                               *)
(***************************************************************************)
CompletedFirst(entries) ==
    \A i, j \in 1 .. Len(entries) :
        (entries[i].completed /\ ~entries[j].completed) => i < j

C25_TableCompletedFirst ==
    CompletedFirst(liveEntries(leaderboard(hub), activeTournament(HubChain), now))

C25_CompletedRankedFirst ==
    /\ C25_TableCompletedFirst
    /\ CompletedFirst(sortedLeaderboard(leaderboard(hub), activeTournament(HubChain), now))


(***************************************************************************)
(* C26: every accepted PlaceCell sends exactly one move-sync message, the  *)
(* last message of its step, with the penalty count the game has after     *)
(* the move, and no other step sends one; so the move-sync messages sent   *)
(* in a game are as many as the game's moves and their penalty counts      *)
(* never decrease in the order of sending.                                 *)
(***************************************************************************)
MoveSyncs(p) == SelectSeq(outbox[p], LAMBDA m : m.type = "SyncCellPlacement")

MoveSyncsAfter(p) == SelectSeq(outbox'[p], LAMBDA m : m.type = "SyncCellPlacement")

NonDecreasing(penalties) ==
    \A i, j \in 1 .. Len(penalties) : i <= j => penalties[i] <= penalties[j]

C26_OneMoveSyncPerMove ==
    /\ [](\A p \in Players :
            LET syncs == MoveSyncs(p)
            IN  /\ Len(syncs) = MoveCount(chain[p])
                /\ NonDecreasing([i \in 1 .. Len(syncs) |-> syncs[i].penalty_count])
                /\ syncs # << >> => syncs[Len(syncs)].penalty_count = PenaltyCount(chain[p]))
    /\ [][\A p \in Players :
            /\ IsPrefix(outbox[p], outbox'[p])
            /\ IF MoveCount(chain'[p]) = MoveCount(chain[p]) + 1
               THEN /\ Len(MoveSyncsAfter(p)) = Len(MoveSyncs(p)) + 1
                    /\ outbox'[p][Len(outbox'[p])].type = "SyncCellPlacement"
                    /\ outbox'[p][Len(outbox'[p])].penalty_count = PenaltyCount(chain'[p])
               ELSE MoveSyncsAfter(p) = MoveSyncs(p)]_vars

\* A game with a penalty has been played to its end, and no message of it
\* has been executed yet.
C26_Witness ==
    \E p \in Players :
        /\ CompletedOnChain(p)
        /\ chain[p].game.penalty_count > 0
        /\ Len(MoveSyncs(p)) = chain[p].game.move_count
        /\ Len(outbox[p]) = chain[p].game.move_count + 2


(***************************************************************************)
(* C27: validate_placement is false exactly when the value stands in       *)
(* another cell of the row, the column or the 3 x 3 box of the cell, and   *)
(* an accepted PlaceCell costs a penalty exactly then; placing the value   *)
(* a cell already holds, with no other cell in conflict, costs none.       *)
(***************************************************************************)
OccursInPeer(board, row, col, value) ==
    \E r, c \in Idx :
        /\ <<r, c>> # <<row, col>>
        /\ \/ r = row
           \/ c = col
           \/ (r \div 3 = row \div 3 /\ c \div 3 = col \div 3)
        /\ board[r][c] = value

C27_PenaltyExactlyOnConflict ==
    [][\A p \in Players :
          move_log'[p] # move_log[p] =>
              LET m        == move_log'[p][Len(move_log'[p])]
                  board    == LoadGame(chain[p], now).board
                  conflict == OccursInPeer(board, m[1], m[2], m[3])
              IN  /\ validate_placement(board, m[1], m[2], m[3]) <=> ~conflict
                  /\ PenaltyCount(chain'[p]) =
                        PenaltyCount(chain[p]) + (IF conflict THEN 1 ELSE 0)
                  /\ chain'[p].game.board[m[1]][m[2]] = m[3]]_vars

\* The same value has been placed twice on one cell, and no penalty counted.
C27_Witness ==
    \E p \in Players :
        /\ Len(move_log[p]) >= 2
        /\ move_log[p][1] = move_log[p][2]
        /\ chain[p].game # None
        /\ chain[p].game.penalty_count = 0
        /\ chain[p].game.move_count >= 2


(***************************************************************************)
(* C28: a game is completed if and only if its board is the solution in    *)
(* all 81 cells; it becomes completed at the accepted PlaceCell that makes *)
(* the board the solution and at no other step; and once it is completed   *)
(* nothing changes its board.                                              *)
(***************************************************************************)
Solved(c) ==
    /\ c.game # None
    /\ c.current_puzzle # None
    /\ {i \in 0 .. 80 : c.game.board[i \div 9][i % 9] # c.current_puzzle.solution[i \div 9][i % 9]} = {}

C29_ClearCellFrame ==
    [][last'.op = "ClearCell" =>
          LET p   == last'.by
              row == last'.args[1]
              col == last'.args[2]
              c   == chain[p]
          IN  /\ UNCHANGED <<now, hub, event_log, leaderboard_log, past_tournaments,
                             outbox, move_log, client, arena>>
              /\ \A q \in DOMAIN chain : q # p => chain'[q] = chain[q]
              /\ IF c.player # None /\ c.game # None /\ row \in Idx /\ col \in Idx
                 THEN IF c.game.given_mask[row][col] \/ c.game.completed
                      THEN ~last'.ok /\ chain'[p] = c
                      ELSE /\ last'.ok
                           /\ chain'[p] = [c EXCEPT !.game.board[row][col] = 0]
                           /\ chain'[p].game.board[row][col] = 0
                 ELSE ~last'.ok /\ chain'[p] = c]_vars

\* ClearCell on a cell the player filled has been rejected because the game
\* is completed.
C29_Witness ==
    /\ last.op = "ClearCell"
    /\ ~last.ok
    /\ CompletedOnChain(last.by)
    /\ ~chain[last.by].game.given_mask[last.args[1]][last.args[2]]


(***************************************************************************)
(* C30: the browser never holds the game state of an earlier tournament    *)
(* for the tournament it shows: the game state it holds while it shows an  *)
(* active tournament is a game on that tournament's puzzle, and a poll     *)
(* that sees a tournament with a new id leaves no game state and no        *)
(* backup behind.                                                          *)
(***************************************************************************)
GameOfTournament(g, t) ==
    g.given_mask = NewGame(generate_puzzle(t.seed), t.start_time_micros).given_mask

StaleGameShown ==
    /\ arena.gameState # None
    /\ IsActive(arena.tournament)
    /\ ~GameOfTournament(arena.gameState, arena.tournament)

C30_NoStaleGameState ==
    /\ [] ~StaleGameShown
    /\ [][arena'.lastTournamentId # arena.lastTournamentId
            => arena'.gameState = None /\ arena'.backup = None]_vars


(***************************************************************************)
(* C33: once the hub holds a completed entry for a participant, no         *)
(* SyncCellPlacement of that participant changes the entry, the move-sync  *)
(* message of the completing move included, which the hub executes after   *)
(* the completion message; and no SyncCellPlacement completes an entry.    *)
(***************************************************************************)
DeliversMoveSync(p) ==
    /\ DeliversMessage(p)
    /\ Head(outbox[p]).type = "SyncCellPlacement"

Entries == {w \in Wallets : hub.leaderboard[w] # None}

CompletedEntries == {w \in Entries : hub.leaderboard[w].completed}

DeliversCompletion(p) ==
    /\ DeliversMessage(p)
    /\ Head(outbox[p]).type = "SyncBoardComplete"

PlaysTournamentOfHub(p) ==
    /\ chain[p].active_tournament # None
    /\ chain[p].active_tournament.id = hub.active_tournament.id

C35_OnlyResultsOfTournament ==
    /\ [][hub'.tournament_counter # hub.tournament_counter
            => \A w \in Wallets : hub'.leaderboard[w] = None]_vars
    /\ [](\A p \in Players :
            hub.leaderboard[p] # None =>
                /\ PlaysTournamentOfHub(p)
                /\ hub.leaderboard[p].move_count <= MoveCount(chain[p]))


(***************************************************************************)
(* C36: between an accepted EndTournament and the next StartTournament no  *)
(* sync message changes the leaderboard or the tournament's counters, and  *)
(* the leaderboard is the final_rankings of the TournamentEnded event;     *)
(* this includes the messages of a participant whose chain accepted a      *)
(* PlaceCell after the hub ended the tournament, because it had not        *)
(* processed TournamentEnded yet.                                          *)
(***************************************************************************)
Ended == hub.active_tournament # None /\ ~hub.active_tournament.active

EndedEvents == {i \in 1..Len(event_log) : event_log[i].type = "TournamentEnded"}

LastEndedEvent == event_log[CHOOSE i \in EndedEvents : \A j \in EndedEvents : j <= i]

DeliversSync(p) ==
    /\ DeliversMessage(p)
    /\ Head(outbox[p]).type \in {"SyncCellPlacement", "SyncBoardComplete"}

RecordedSinceReset(a) ==
    SubSeq(a.recorded, Len(a.recorded) - a.sinceReset + 1, Len(a.recorded))

Burst(h) ==
    /\ Len(h) >= 3
    /\ h[Len(h)] - h[Len(h) - 1] <= 5000
    /\ h[Len(h) - 1] - h[Len(h) - 2] <= 5000

RecordsMove == arena'.recorded # arena.recorded

Resets == arena'.sinceReset = 0 /\ arena.sinceReset > 0

C31_BurstFlagIsSticky ==
    /\ [](Len(arena.moveTimestamps) <= 3)
    /\ [][RecordsMove =>
            /\ arena'.isSuspicious =
                 (arena.isSuspicious \/ Burst(RecordedSinceReset(arena')))
            /\ last'.op = "PlaceCell"
            /\ last'.ok = PlaceCellAccepts(chain[last'.by], now,
                              last'.args[1], last'.args[2], last'.args[3])
            /\ last'.ok => MoveCount(chain'[last'.by]) = MoveCount(chain[last'.by]) + 1]_vars
    /\ [][arena.isSuspicious /\ ~Resets => arena'.isSuspicious]_vars
    /\ [][Resets => ~arena'.isSuspicious /\ arena'.moveTimestamps = << >>]_vars

\* Three moves within 5000 ms of each other have set the flag, a fourth
\* move 5001 ms later has been recorded, and the chain has accepted a move
\* of the flagged player.
C31_Witness ==
    /\ arena.isSuspicious
    /\ Len(arena.recorded) = 4
    /\ arena.sinceReset = 4
    /\ arena.recorded[2] - arena.recorded[1] = 5000
    /\ arena.recorded[3] - arena.recorded[2] = 5000
    /\ arena.recorded[4] - arena.recorded[3] = 5001
    /\ ~Burst(arena.recorded)
    /\ last.op = "PlaceCell" /\ last.ok


(***************************************************************************)
(* C32: however the calls of ensureWasmInit by the pre-warm, initLinera    *)
(* and connectToLinera interleave, initialize() is called at most once,    *)
(* and a caller continues only when that one initialisation has finished:  *)
(* normally when it succeeded, with an exception when it failed.           *)
(***************************************************************************)
Continues(c) ==
    /\ client.wasm.at[c] \notin {"resumed", "threw"}
    /\ client'.wasm.at[c] \in {"resumed", "threw"}

C32_InitializeOnce ==
    /\ [](client.wasm.initializeCalls <= 1)
    /\ [][\A c \in WasmCallers :
            Continues(c) =>
                /\ client.wasm.initializeCalls = 1
                /\ client.wasm.importing = 0
                /\ client.wasm.initializing = 0
                /\ (client'.wasm.at[c] = "resumed") = client.wasm.wasmInitialized]_vars

\* The three callers have each called once and all have continued after
\* the one call of initialize().
C32_Witness ==
    /\ \A c \in WasmCallers :
          client.wasm.at[c] = "resumed" /\ client.wasm.calls[c] = 1
    /\ client.wasm.initializeCalls = 1
    /\ client.wasm.wasmInitialized


(***************************************************************************)
(* C37: in the browser client the application handle, when set, is the     *)
(* handle of the chain and signer that the client reports as userChainId   *)
(* and signerAddress, however the pre-warm, overlapping calls of           *)
(* connectToLinera and ensureAppReady interleave.                          *)
(***************************************************************************)
C37_HandleOfReportedIdentity ==
    (client.phases.lineraApp # None /\ client.phases.userChainId # None) =>
        /\ Some(client.phases.lineraApp.some.chain) = client.phases.userChainId
        /\ Some(client.phases.lineraApp.some.owner) = client.phases.signerAddress


(***************************************************************************)
(* C39: a query never goes on without an application handle: it goes on    *)
(* with the handle that phase 2 gave, and throws only when there is none   *)
(* or when the client is not connected; and a call of connectToLinera      *)
(* that succeeds after phase 2 has failed starts phase 2 again, so that a  *)
(* later query can go on.                                                  *)
(***************************************************************************)
Phase2Failed ==
    /\ client.phases.phase2Promise # None
    /\ client.phases.phase2Runs[client.phases.phase2Promise.some].status = "failed"
    /\ client.phases.lineraApp = None

ConnectSucceeds ==
    \/ /\ client'.phases.connects # client.phases.connects
       /\ client.phases.phase1Result # None
    \/ \E call \in ConnectCalls :
          /\ client.phases.connect[call].at = "awaitPhase1"
          /\ client'.phases.connect[call].at = "idle"
    \/ \E call \in ConnectCalls :
          /\ client.phases.connect[call].at = "fallback"
          /\ client'.phases.connect[call].at = "idle"
          /\ client'.keys # client.keys

QueryEnds == client.phases.query.at \in {"idle", "awaiting"}
                /\ client'.phases.query.at \in {"proceeded", "threw"}

C39_QueryNeedsHandle ==
    [][QueryEnds =>
         IF client'.phases.query.at = "proceeded"
         THEN /\ client'.phases.query.handle # None
              /\ client'.phases.query.handle = client'.phases.lineraApp
         ELSE client'.phases.lineraApp = None \/ client.phases.userChainId = None]_vars

C39_ReconnectRestartsPhase2 ==
    /\ C39_QueryNeedsHandle
    /\ [][Phase2Failed /\ ConnectSucceeds =>
            client'.phases.phase2Runs[client'.phases.phase2Promise.some].status
                = "pending"]_vars


(***************************************************************************)
(* C38: while useArena is disconnected (before the first connect, and from *)
(* a disconnect to the next connect) its player, tournament, puzzleBoard   *)
(* and gameState are null and no poll runs: the interval timer is cleared  *)
(* and no step changes the data, whatever poll or block-notification       *)
(* callback was registered or under way when disconnect ran.               *)
(***************************************************************************)
ArenaData(a) == <<a.player, a.tournament, a.puzzleBoard, a.gameState>>

C38_DisconnectedStaysCleared ==
    /\ [](arena.status = "Disconnected" =>
            /\ ArenaData(arena) = <<None, None, None, None>>
            /\ ~arena.pollRef)
    /\ [][arena.status = "Disconnected" /\ arena'.status = "Disconnected" =>
            ArenaData(arena') = ArenaData(arena)]_vars

=============================================================================
